---- MODULE Spec2Model ----
(***************************************************************************)
(* Line classifier (extractor/sentence_postprocess.py) and text normalizer *)
(* (extractor/text_clean.py) of doc_flow, with the import of the two       *)
(* modules, the outline enrichment of the command lines (cli.py,           *)
(* utils/outline.py) and the page producers (backends).                    *)
(*                                                                         *)
(* A Python str is modelled as a sequence of characters.  An ASCII         *)
(* character is the one-character string; a character outside ASCII is    *)
(* written by its code point, "U+00A0".  The regular expressions of the    *)
(* two modules are operators over such sequences that compute what         *)
(* re.match / re.search / re.sub / re.split compute for them.              *)
(***************************************************************************)
EXTENDS Integers, Sequences, FiniteSets, TLC

(***************************************************************************)
(* Characters and the str predicates the code relies on.                   *)
(***************************************************************************)
TAB == "\t"
LF == "\n"
NBSP == "U+00A0"

UPPER == <<"A","B","C","D","E","F","G","H","I","J","K","L","M",
           "N","O","P","Q","R","S","T","U","V","W","X","Y","Z">>
LOWER == <<"a","b","c","d","e","f","g","h","i","j","k","l","m",
           "n","o","p","q","r","s","t","u","v","w","x","y","z">>
DIGITS == <<"0","1","2","3","4","5","6","7","8","9">>

AsciiUpper == {UPPER[k] : k \in 1..26}
AsciiLower == {LOWER[k] : k \in 1..26}
AsciiDigit == {DIGITS[k] : k \in 1..10}

\* Hangul syllables (letters without case) and a full-width capital A.
Hangul == {"U+BA54", "U+C2DC", "U+C9C0"}
FullWidthA == "U+FF21"
\* The bytes of U+2022 read as cp1252, as they stand in _BULLET_RE.
MojibakeBullet == {"U+00E2", "U+20AC", "U+00A2"}
NonAscii == Hangul \cup MojibakeBullet \cup {NBSP, FullWidthA, "U+2022"}

\* str.isspace(), and \s of a str pattern
IsSpace(c) == c \in {" ", TAB, LF, NBSP}
\* str.isalpha()
IsAlpha(c) == c \in AsciiUpper \cup AsciiLower \cup Hangul \cup {FullWidthA, "U+00E2"}
\* str.isupper() of one character
IsUpper(c) == c \in AsciiUpper \cup {FullWidthA}
\* \d of a str pattern
IsDigit(c) == c \in AsciiDigit
\* \w of a str pattern
IsWord(c) == IsAlpha(c) \/ IsDigit(c) \/ c = "_"
\* str.lower() of one character
LowerMap == [c \in AsciiUpper |-> LOWER[CHOOSE k \in 1..26 : UPPER[k] = c]]
LowerOf(c) == IF c \in AsciiUpper THEN LowerMap[c] ELSE c

lower(s) == [k \in 1..Len(s) |-> LowerOf(s[k])]

\* number of characters from position p on that satisfy the class
RECURSIVE SpaceRun(_, _)
SpaceRun(s, p) == IF p <= Len(s) /\ IsSpace(s[p]) THEN 1 + SpaceRun(s, p + 1) ELSE 0

RECURSIVE DigitRun(_, _)
DigitRun(s, p) == IF p <= Len(s) /\ IsDigit(s[p]) THEN 1 + DigitRun(s, p + 1) ELSE 0

RECURSIVE HashRun(_, _)
HashRun(s, p) == IF p <= Len(s) /\ s[p] = "#" THEN 1 + HashRun(s, p + 1) ELSE 0

RECURSIVE RomanRun(_, _)
RomanRun(s, p) ==
    IF p <= Len(s) /\ LowerOf(s[p]) \in {"i", "v", "x", "l", "c", "d", "m"}
    THEN 1 + RomanRun(s, p + 1) ELSE 0

\* number of trailing whitespace characters
RECURSIVE SpaceRunBack(_, _)
SpaceRunBack(s, p) == IF p >= 1 /\ IsSpace(s[p]) THEN 1 + SpaceRunBack(s, p - 1) ELSE 0

lstrip(s) == SubSeq(s, SpaceRun(s, 1) + 1, Len(s))
rstrip(s) == SubSeq(s, 1, Len(s) - SpaceRunBack(s, Len(s)))
strip(s) == rstrip(lstrip(s))

startswith(s, pre) == Len(s) >= Len(pre) /\ SubSeq(s, 1, Len(pre)) = pre
endswith(s, suf) == Len(s) >= Len(suf) /\ SubSeq(s, Len(s) - Len(suf) + 1, Len(s)) = suf

\* str.split(): the whitespace-separated tokens
RECURSIVE split(_)
split(s) ==
    LET t == lstrip(s)
        n == CHOOSE k \in 0..Len(t) :
                 /\ \A j \in 1..k : ~IsSpace(t[j])
                 /\ (k = Len(t) \/ IsSpace(t[k + 1]))
    IN  IF t = <<>> THEN <<>>
        ELSE <<SubSeq(t, 1, n)>> \o split(SubSeq(t, n + 1, Len(t)))

\* str.split(None, 1)[1]: what follows the first token and the whitespace after it
SplitOnceRest(s) ==
    LET t == lstrip(s)
        n == Len(split(t)[1])
    IN  SubSeq(t, n + SpaceRun(t, n + 1) + 1, Len(t))

\* str.splitlines(), for the line break "\n"
RECURSIVE splitlines(_)
splitlines(s) ==
    IF s = <<>> THEN <<>>
    ELSE LET n == CHOOSE k \in 0..Len(s) :
                      /\ \A j \in 1..k : s[j] # LF
                      /\ (k = Len(s) \/ s[k + 1] = LF)
         IN  <<SubSeq(s, 1, n)>> \o splitlines(SubSeq(s, n + 2, Len(s)))

(***************************************************************************)
(* extractor/text_clean.py                                                 *)
(***************************************************************************)
\* html.unescape resolves a character reference by value; the code points
\* that occur in the model's inputs
CodePoint(n) ==
    CASE n = 9 -> TAB
      [] n = 32 -> " "
      [] n = 65 -> "A"
      [] n = 124 -> "|"
      [] n = 160 -> NBSP
      [] OTHER -> "U+FFFD"

HexValue(c) ==
    IF IsDigit(c) THEN (CHOOSE k \in 1..10 : DIGITS[k] = c) - 1
    ELSE 9 + (CHOOSE k \in 1..6 : LOWER[k] = LowerOf(c))

IsHexDigit(c) == IsDigit(c) \/ LowerOf(c) \in {"a", "b", "c", "d", "e", "f"}

RECURSIVE HexRun(_, _)
HexRun(s, p) == IF p <= Len(s) /\ IsHexDigit(s[p]) THEN 1 + HexRun(s, p + 1) ELSE 0

\* value of the digits s[p..q] in the given base
RECURSIVE Number(_, _, _, _)
Number(s, p, q, base) ==
    IF q < p THEN 0 ELSE base * Number(s, p, q - 1, base) + HexValue(s[q])

\* named references of the HTML5 table that occur in the model's inputs;
\* each is also defined without the closing ";"
NamedRefs == { [name |-> <<"a","m","p">>, char |-> "&"],
               [name |-> <<"l","t">>, char |-> "<"],
               [name |-> <<"n","b","s","p">>, char |-> NBSP] }

\* The reference that starts at s[1] = "&": the number of characters it
\* takes and the text it stands for; len = 0 when there is none.
CharRef(s) ==
    LET semi(p) == IF p <= Len(s) /\ s[p] = ";" THEN 1 ELSE 0
        dec == DigitRun(s, 3)
        hex == HexRun(s, 4)
        named == {r \in NamedRefs : startswith(Tail(s), r.name)}
    IN  IF Len(s) >= 3 /\ s[2] = "#" /\ dec >= 1
        THEN [len |-> 2 + dec + semi(3 + dec),
              out |-> <<CodePoint(Number(s, 3, 2 + dec, 10))>>]
        ELSE IF Len(s) >= 4 /\ s[2] = "#" /\ s[3] \in {"x", "X"} /\ hex >= 1
        THEN [len |-> 3 + hex + semi(4 + hex),
              out |-> <<CodePoint(Number(s, 4, 3 + hex, 16))>>]
        ELSE IF named # {}
        THEN LET r == CHOOSE x \in named : TRUE
             IN  [len |-> 1 + Len(r.name) + semi(2 + Len(r.name)), out |-> <<r.char>>]
        ELSE [len |-> 0, out |-> <<>>]

\* html.unescape(s)
RECURSIVE html_unescape(_)
html_unescape(s) ==
    IF s = <<>> THEN <<>>
    ELSE IF Head(s) = "&" /\ CharRef(s).len > 0
    THEN CharRef(s).out \o html_unescape(SubSeq(s, CharRef(s).len + 1, Len(s)))
    ELSE <<Head(s)>> \o html_unescape(Tail(s))

\* unicodedata.normalize("NFKC", s)
NFKC(s) ==
    [k \in 1..Len(s) |->
        CASE s[k] = NBSP -> " "
          [] s[k] = FullWidthA -> "A"
          [] OTHER -> s[k]]

\* CTRL_RE.sub(" ", s): [\u0000-\u001F\u007F]
CTRL_RE_sub(s) == [k \in 1..Len(s) |-> IF s[k] \in {TAB, LF} THEN " " ELSE s[k]]

\* NBSP_RE.sub(" ", s)
NBSP_RE_sub(s) == [k \in 1..Len(s) |-> IF s[k] = NBSP THEN " " ELSE s[k]]

\* LEADING_PIPE_RE.sub("", s): ^\s*\|\s*
LEADING_PIPE_RE_sub(s) ==
    LET w == SpaceRun(s, 1)
    IN  IF w < Len(s) /\ s[w + 1] = "|"
        THEN SubSeq(s, w + 2 + SpaceRun(s, w + 2), Len(s))
        ELSE s

\* a substitution that leaves the trailing pipe where it is
TRAILING_PIPE_RE_sub_Keeps(s) == s

\* TRAILING_PIPE_RE.sub("", s): \s*\|\s*$
TRAILING_PIPE_RE_sub(s) ==
    LET p == Len(s) - SpaceRunBack(s, Len(s))
    IN  IF p >= 1 /\ s[p] = "|"
        THEN SubSeq(s, 1, p - 1 - SpaceRunBack(s, p - 1))
        ELSE s

\* MULTISPACE_RE.sub(" ", s): [ \t]{2,}
RECURSIVE MULTISPACE_RE_sub(_)
MULTISPACE_RE_sub(s) ==
    IF Len(s) < 2 THEN s
    ELSE IF s[1] \in {" ", TAB} /\ s[2] \in {" ", TAB}
    THEN LET n == CHOOSE k \in 2..Len(s) :
                      /\ \A j \in 1..k : s[j] \in {" ", TAB}
                      /\ (k = Len(s) \/ s[k + 1] \notin {" ", TAB})
         IN  <<" ">> \o MULTISPACE_RE_sub(SubSeq(s, n + 1, Len(s)))
    ELSE <<Head(s)>> \o MULTISPACE_RE_sub(Tail(s))

\* the separators listed in the class [\s:|-/] of NON_LATIN_PREFIX_RE, each
\* taken for itself ("|-/" is no range: "|" sorts after "/")
IsPrefixSep(c) == IsSpace(c) \/ c \in {":", "|", "-", "/"}

RECURSIVE NonAsciiRun(_, _)
NonAsciiRun(s, p) == IF p <= Len(s) /\ s[p] \in NonAscii THEN 1 + NonAsciiRun(s, p + 1) ELSE 0

RECURSIVE PrefixSepRun(_, _)
PrefixSepRun(s, p) == IF p <= Len(s) /\ IsPrefixSep(s[p]) THEN 1 + PrefixSepRun(s, p + 1) ELSE 0

\* NON_LATIN_PREFIX_RE.match(s): the start of group "latin", 0 when no match.
\* [^\x00-\x7F]{2,} may give characters back to the separator run (U+00A0
\* is in both classes); group "latin" starts at the first ASCII letter.
\* clean_text has replaced the control characters before this match.
NON_LATIN_PREFIX_RE_latin(s) ==
    LET n == NonAsciiRun(s, 1)
        starts == {p \in 4..Len(s) :
                      /\ \E a \in 2..n : /\ a < p - 1
                                         /\ \A j \in (a + 1)..(p - 1) : IsPrefixSep(s[j])
                      /\ s[p] \in AsciiUpper \cup AsciiLower
                      /\ p < Len(s)}
    IN  IF starts = {} THEN 0 ELSE CHOOSE p \in starts : TRUE

\* x in s, for str
Contains(s, x) == \E p \in 1..(Len(s) - Len(x) + 1) : SubSeq(s, p, p + Len(x) - 1) = x

Keywords == { <<"m","e","s","s","a","g","e">>, <<"r","e","p","o","r","t">>,
              <<"s","u","s","t","a","i","n","a","b","i","l","i","t","y">>,
              <<"c","e","o">>, <<"t","a","r","g","e","t">>,
              <<"g","o","v","e","r","n","a","n","c","e">> }

_strip_bilingual_prefix(s) ==
    LET p == NON_LATIN_PREFIX_RE_latin(s)
        latin == strip(SubSeq(s, p, Len(s)))
    IN  IF p = 0 THEN s
        ELSE IF \E tok \in Keywords : Contains(lower(latin), tok) THEN latin
        ELSE s

\* DUP_EN_RE.match(s): ^(?P<a>.+?)\s+\1$ with IGNORECASE; the length of
\* group "a" (the shortest that matches), 0 when no match
DUP_EN_RE_a(s) ==
    LET lens == {n \in 1..Len(s) :
                    /\ Len(s) >= 2 * n + 1
                    /\ \A j \in (n + 1)..(Len(s) - n) : IsSpace(s[j])
                    /\ lower(SubSeq(s, Len(s) - n + 1, Len(s))) = lower(SubSeq(s, 1, n))}
    IN  IF lens = {} THEN 0 ELSE CHOOSE n \in lens : \A m \in lens : n <= m

clean_text(s) ==
    LET s1 == html_unescape(s)
        s2 == NFKC(s1)
        s3 == NBSP_RE_sub(CTRL_RE_sub(s2))
        s4 == TRAILING_PIPE_RE_sub(LEADING_PIPE_RE_sub(s3))
        s5 == MULTISPACE_RE_sub(strip(s4))
        s6 == _strip_bilingual_prefix(s5)
        a  == DUP_EN_RE_a(s6)
        s7 == IF a > 0 THEN SubSeq(s6, 1, a) ELSE s6
    IN  strip(s7)

(***************************************************************************)
(* extractor/sentence_postprocess.py: patterns                             *)
(***************************************************************************)
\* _HEADING_RE.match(line): ^(?P<hashes>#{1,6})\s+(?P<text>.+)$
\* the length of group "hashes", 0 when no match
_HEADING_RE_hashes(line) ==
    LET h == HashRun(line, 1)
    IN  IF h \in 1..6 /\ Len(line) >= h + 2 /\ IsSpace(line[h + 1]) THEN h ELSE 0

\* group "text": \s+ takes the whole whitespace run but leaves one character
_HEADING_RE_text(line) ==
    LET h == _HEADING_RE_hashes(line)
        w == SpaceRun(line, h + 1)
        from == IF h + w >= Len(line) THEN Len(line) ELSE h + w + 1
    IN  SubSeq(line, from, Len(line))

\* _TABLE_RE.match(line): ^\s*\|.+\|\s*$
_TABLE_RE_match(line) ==
    LET t == strip(line)
    IN  Len(t) >= 3 /\ t[1] = "|" /\ t[Len(t)] = "|"

\* the one-character markers of _BULLET_RE, as the class stands in the source
BulletMarkers == {"-", "*"} \cup MojibakeBullet

\* _BULLET_RE.match(line): ^\s*([-*...]|\d+\.)\s+(.+)$
_BULLET_RE_match(line) ==
    LET t == lstrip(line)
        d == DigitRun(t, 1)
    IN  \/ Len(t) >= 3 /\ t[1] \in BulletMarkers /\ IsSpace(t[2])
        \/ d >= 1 /\ Len(t) >= d + 3 /\ t[d + 1] = "." /\ IsSpace(t[d + 2])

TocHints == { <<"t","a","b","l","e"," ","o","f"," ","c","o","n","t","e","n","t","s">>,
              <<"c","o","n","t","e","n","t","s">>,
              <<"i","n","d","e","x">> }

ReferenceWords == { <<"r","e","f","e","r","e","n","c","e","s">>,
                    <<"b","i","b","l","i","o","g","r","a","p","h","y">>,
                    <<"w","o","r","k","s"," ","c","i","t","e","d">> }

\* _TOC_HINTS.search(l): (table of contents|contents|index)$ with re.I
_TOC_HINTS_search(l) == \E w \in TocHints : endswith(lower(l), w)

\* _REFERENCES.search(l): ^(references|bibliography|works cited)\b with re.I
_REFERENCES_search(l) ==
    \E w \in ReferenceWords :
        /\ startswith(lower(l), w)
        /\ (Len(l) = Len(w) \/ ~IsWord(l[Len(w) + 1]))

_is_toc_or_reference(line) ==
    LET l == strip(line)
    IN  IF l = <<>> THEN FALSE
        ELSE _TOC_HINTS_search(l) \/ _REFERENCES_search(l)

\* the end of the number \d+(?:\.\d+){0,4} that starts at t[1], and its dots
RECURSIVE NumberGroups(_, _, _)
NumberGroups(t, pos, k) ==
    IF k < 4 /\ pos + 2 <= Len(t) /\ t[pos + 1] = "." /\ DigitRun(t, pos + 2) >= 1
    THEN NumberGroups(t, pos + 1 + DigitRun(t, pos + 2), k + 1)
    ELSE [end |-> pos, dots |-> k]

\* what follows a heading number in all three patterns: \s+[^\s].*$
HasTitleAfter(t, pos) ==
    LET w == SpaceRun(t, pos + 1)
    IN  w >= 1 /\ pos + w < Len(t)

\* _NUM_HEADING.match(s): ^\s*(\d+(?:\.\d+){0,4})\s+[^\s].*$
\* the number of "." in group 1, -1 when no match
_NUM_HEADING_dots(s) ==
    LET t == lstrip(s)
        g == NumberGroups(t, DigitRun(t, 1), 0)
    IN  IF DigitRun(t, 1) >= 1 /\ HasTitleAfter(t, g.end) THEN g.dots ELSE -1

\* _ROMAN_HEADING.match(s): ^\s*([IVXLCDM]+)\.\s+[^\s].*$ with re.I
_ROMAN_HEADING_match(s) ==
    LET t == lstrip(s)
        r == RomanRun(t, 1)
    IN  r >= 1 /\ r < Len(t) /\ t[r + 1] = "." /\ HasTitleAfter(t, r + 1)

\* _ALPHA_HEADING.match(s): ^\s*([A-Z])\.\s+[^\s].*$
_ALPHA_HEADING_match(s) ==
    LET t == lstrip(s)
    IN  Len(t) >= 2 /\ t[1] \in AsciiUpper /\ t[2] = "." /\ HasTitleAfter(t, 2)

Min(a, b) == IF a <= b THEN a ELSE b
Max(a, b) == IF a >= b THEN a ELSE b

\* None is modelled as 0: every level the functions return is at least 1
None == 0

_infer_level_from_numbering(s) ==
    IF _NUM_HEADING_dots(s) >= 0 THEN Min(6, _NUM_HEADING_dots(s) + 1)
    ELSE IF _ROMAN_HEADING_match(s) THEN 1
    ELSE IF _ALPHA_HEADING_match(s) THEN 2
    ELSE None

\* _caps_ratio(s) >= 0.6, on the counts the ratio is taken of
CapsRatioAtLeast60(s) ==
    LET letters == {k \in 1..Len(s) : IsAlpha(s[k])}
        caps == {k \in letters : IsUpper(s[k])}
    IN  letters # {} /\ 10 * Cardinality(caps) >= 6 * Cardinality(letters)

MaxHeadingWords == 12

\* _maybe_heading_from_heuristics that caps the level at 6, as the numeric rule does
_maybe_heading_from_heuristics_Cap6(s, last_level) ==
    LET text == strip(s)
    IN  IF text = <<>> THEN None
        ELSE IF /\ Len(split(text)) <= MaxHeadingWords
                /\ text[Len(text)] \notin {".", "!", "?"}
                /\ CapsRatioAtLeast60(text)
        THEN Min(Max(1, last_level + 1), 6)
        ELSE None

_maybe_heading_from_heuristics(s, last_level) ==
    LET text == strip(s)
    IN  IF text = <<>> THEN None
        ELSE IF /\ Len(split(text)) <= MaxHeadingWords
                /\ text[Len(text)] \notin {".", "!", "?"}
                /\ CapsRatioAtLeast60(text)
        THEN Min(Max(1, last_level + 1), 3)
        ELSE None

\* a split at every whitespace run after '.', '!' or '?', whatever follows it
RECURSIVE _SENT_SPLIT_split_AnyNext(_)
_SENT_SPLIT_split_AnyNext(s) ==
    LET cuts == {p \in 2..Len(s) :
                    /\ s[p - 1] \in {".", "!", "?"}
                    /\ SpaceRun(s, p) >= 1
                    /\ p + SpaceRun(s, p) <= Len(s)}
        p == CHOOSE c \in cuts : \A d \in cuts : c <= d
    IN  IF cuts = {} THEN <<s>>
        ELSE <<SubSeq(s, 1, p - 1)>>
             \o _SENT_SPLIT_split_AnyNext(SubSeq(s, p + SpaceRun(s, p), Len(s)))

\* _SENT_SPLIT.split(s): (?<=[.!?])\s+(?=[A-Z0-9])
RECURSIVE _SENT_SPLIT_split(_)
_SENT_SPLIT_split(s) ==
    LET cuts == {p \in 2..Len(s) :
                    /\ s[p - 1] \in {".", "!", "?"}
                    /\ SpaceRun(s, p) >= 1
                    /\ p + SpaceRun(s, p) <= Len(s)
                    /\ s[p + SpaceRun(s, p)] \in AsciiUpper \cup AsciiDigit}
        p == CHOOSE c \in cuts : \A d \in cuts : c <= d
    IN  IF cuts = {} THEN <<s>>
        ELSE <<SubSeq(s, 1, p - 1)>>
             \o _SENT_SPLIT_split(SubSeq(s, p + SpaceRun(s, p), Len(s)))

\* _emit_row with heading_level and is_table taken in the wrong order
_emit_row_Swapped(sf, n, text, section_type, heading_level, is_table, cur, pg) ==
    [source_file |-> sf,
     line_no |-> n,
     page_no |-> pg,
     section_type |-> section_type,
     heading_level |-> is_table,
     is_table |-> heading_level,
     h1 |-> <<>>,
     h2 |-> <<>>,
     h3 |-> <<>>,
     section_path |-> <<>>,
     current_section |-> cur,
     text |-> strip(text)]

_emit_row(sf, n, text, section_type, heading_level, is_table, cur, pg) ==
    [source_file |-> sf,
     line_no |-> n,
     page_no |-> pg,
     section_type |-> section_type,
     heading_level |-> heading_level,
     is_table |-> is_table,
     h1 |-> <<>>,
     h2 |-> <<>>,
     h3 |-> <<>>,
     section_path |-> <<>>,
     current_section |-> cur,
     text |-> strip(text)]

(***************************************************************************)
(* parse_markdown_to_rows: one generator, advanced line by line            *)
(***************************************************************************)
VARIABLES md_text, source_file, page_no, use_heuristics,
          pc, lines, i, current_section, last_heading_level, rows

\* The programs around the generator: the input document (doc), the import of
\* the two modules and a call of clean_text (tc_pc, compiled, s_in, s_out, s_again),
\* the outline enrichment of the command lines (cli, cli_pc, ranges, row_ix)
\* the page producers (backend, prod_pc, page_ix, md_pages), a second
\* invocation of the generator that is suspended while the first one runs
\* (running, suspended), and the page loop of the app (app_pc, app_rows).
VARIABLES doc,
          tc_pc, compiled, s_in, s_out, s_again,
          cli, cli_pc, ranges, row_ix,
          backend, prod_pc, page_ix, md_pages,
          running, suspended,
          app_pc, app_rows

normalizer == <<tc_pc, compiled, s_in, s_out, s_again>>
enrichment == <<cli, cli_pc, ranges, row_ix>>
producer == <<backend, prod_pc, page_ix, md_pages>>
scheduler == <<running, suspended>>
app == <<app_pc, app_rows>>

\* what the generator never writes: its arguments and the state of its callers
inputs == <<md_text, source_file, page_no, use_heuristics,
            doc, normalizer, enrichment, producer, scheduler, app>>
generator == <<md_text, source_file, page_no, use_heuristics,
               pc, lines, i, current_section, last_heading_level>>
vars == <<md_text, source_file, page_no, use_heuristics,
          pc, lines, i, current_section, last_heading_level, rows,
          doc, normalizer, enrichment, producer, scheduler, app>>

\* a program that is not running
NoDocument == doc = <<>>
NoGenerator ==
    /\ md_text = <<>> /\ source_file = <<>> /\ page_no = 0 /\ use_heuristics = FALSE
    /\ pc = "none" /\ lines = <<>> /\ i = 0
    /\ current_section = <<>> /\ last_heading_level = 0
NoNormalizer ==
    tc_pc = "none" /\ compiled = 0 /\ s_in = <<>> /\ s_out = <<>> /\ s_again = <<>>
NoEnrichment == cli = "none" /\ cli_pc = "none" /\ ranges = <<>> /\ row_ix = 0
NoProducer == backend = "none" /\ prod_pc = "none" /\ page_ix = 0 /\ md_pages = <<>>
NoScheduler == running = 0 /\ suspended = <<>>
NoApp == app_pc = "none" /\ app_rows = <<>>

\* bound: the number of lines of md_text
MaxLines == 3

\* the lines md_text is made of
SampleLines ==
    { <<>>,                                                   \* blank
      <<"#"," ","A">>,                                        \* explicit heading, level 1
      <<"#","#","#","#","#","#"," ","C">>,                    \* level 6
      <<"#"," ","|">>,                                        \* explicit heading whose text normalizes to ""
      <<"#"," ","I","n","d","e","x">>,                        \* noise, although it has the shape of a heading
      <<"|"," ","a"," ","|"," ","b"," ","|">>,                \* table
      <<"1","."," ","X">>,                                    \* numbered bullet, short and upper-case
      <<"3",".","2"," ","C","l","i","m","a","t","e"," ","R","i","s","k">>,\* numeric outline
      <<"I","."," ","G","o">>,                                \* roman numeral
      <<"B","."," ","G","o">>,                                \* single letter
      <<"A","B","C"," ","d","e">>,                            \* short, 3 of 5 letters upper-case
      <<"&","#","X","9",";">>,                                \* short and upper-case; normalizes to ""
      <<"1"," ","|">>,                                        \* numeric outline whose title normalizes to ""
      <<"H","i","."," ","Y","o",".">> }                       \* two sentences

PageNos == {1}

RECURSIVE JoinLines(_)
JoinLines(ls) ==
    IF ls = <<>> THEN <<>>
    ELSE IF Len(ls) = 1 THEN ls[1]
    ELSE ls[1] \o <<LF>> \o JoinLines(Tail(ls))

Documents == {JoinLines(ls) : ls \in UNION {[1..n -> SampleLines] : n \in 0..MaxLines}}

Init ==
    /\ md_text \in Documents
    /\ source_file = <<"a",".","p","d","f">>
    /\ page_no \in PageNos
    /\ use_heuristics \in BOOLEAN
    /\ pc = "start"
    /\ lines = <<>>
    /\ i = 0
    /\ current_section = <<>>
    /\ last_heading_level = 0
    /\ rows = <<>>
    /\ NoDocument /\ NoNormalizer /\ NoEnrichment /\ NoProducer
    /\ NoScheduler /\ NoApp

\* line 155: line.split(None, 1)[1] if " " in line else line
txt_raw(l) ==
    IF \E k \in 1..Len(l) : l[k] = " " THEN SplitOnceRest(l) ELSE l

\* the loop body with the heuristic headings tried before tables and bullets
Rule_HeuristicsFirst(l, heuristics) ==
    IF l = <<>> \/ _is_toc_or_reference(l) THEN "skip"
    ELSE IF _HEADING_RE_hashes(l) > 0 THEN "heading"
    ELSE IF heuristics /\ _infer_level_from_numbering(l) # None THEN "numbering"
    ELSE IF heuristics /\ _maybe_heading_from_heuristics(l, last_heading_level) # None THEN "caps"
    ELSE IF _TABLE_RE_match(l) THEN "table"
    ELSE IF _BULLET_RE_match(l) THEN "bullet"
    ELSE "text"

\* the loop body without the test of use_heuristics
Rule_IgnoresFlag(l, heuristics) ==
    IF l = <<>> \/ _is_toc_or_reference(l) THEN "skip"
    ELSE IF _HEADING_RE_hashes(l) > 0 THEN "heading"
    ELSE IF _TABLE_RE_match(l) THEN "table"
    ELSE IF _BULLET_RE_match(l) THEN "bullet"
    ELSE IF _infer_level_from_numbering(l) # None THEN "numbering"
    ELSE IF _maybe_heading_from_heuristics(l, last_heading_level) # None THEN "caps"
    ELSE "text"

\* The branch of the loop body that handles a line l (raw.rstrip()).
Rule(l, heuristics) ==
    IF l = <<>> \/ _is_toc_or_reference(l) THEN "skip"
    ELSE IF _HEADING_RE_hashes(l) > 0 THEN "heading"
    ELSE IF _TABLE_RE_match(l) THEN "table"
    ELSE IF _BULLET_RE_match(l) THEN "bullet"
    ELSE IF heuristics /\ _infer_level_from_numbering(l) # None THEN "numbering"
    ELSE IF heuristics /\ _maybe_heading_from_heuristics(l, last_heading_level) # None
    THEN "caps"
    ELSE "text"

\* the line the loop is about to handle, and its enumerate() index
line == rstrip(lines[i + 1])
\* enumerate() counting from 0
line_no_FromZero == i

line_no == i + 1

AtLine(rule) == pc = "loop" /\ i < Len(lines) /\ Rule(line, use_heuristics) = rule

\* lines 103-106: the generator runs up to the loop
Start ==
    /\ pc = "start"
    /\ current_section' = <<>>
    /\ last_heading_level' = 0
    /\ lines' = splitlines(md_text)
    /\ pc' = "loop"
    /\ UNCHANGED <<inputs, i, rows>>

\* lines 108-109
SkipLine ==
    /\ AtLine("skip")
    /\ i' = i + 1
    /\ UNCHANGED <<inputs, pc, lines, current_section, last_heading_level, rows>>

\* the heading branch without the test for an empty text
ExplicitHeading_NoEmptyTest ==
    /\ AtLine("heading")
    /\ LET level == _HEADING_RE_hashes(line)
           text == clean_text(strip(_HEADING_RE_text(line)))
       IN  /\ current_section' = text
           /\ last_heading_level' = level
           /\ rows' = Append(rows, _emit_row(source_file, line_no, text, "heading",
                                             level, 0, text, page_no))
    /\ i' = i + 1
    /\ UNCHANGED <<inputs, pc, lines>>

\* lines 112-125
ExplicitHeading ==
    /\ AtLine("heading")
    /\ LET level == _HEADING_RE_hashes(line)
           text == clean_text(strip(_HEADING_RE_text(line)))
       IN  IF text = <<>>
           THEN UNCHANGED <<current_section, last_heading_level, rows>>
           ELSE /\ current_section' = text
                /\ last_heading_level' = level
                /\ rows' = Append(rows, _emit_row(source_file, line_no, text, "heading",
                                                  level, 0, text, page_no))
    /\ i' = i + 1
    /\ UNCHANGED <<inputs, pc, lines>>

\* the table branch keeping its text as the current section
TableRow_SetsSection ==
    /\ AtLine("table")
    /\ LET cleaned_line == clean_text(line)
       IN  IF cleaned_line = <<>>
           THEN UNCHANGED <<rows, current_section>>
           ELSE /\ current_section' = cleaned_line
                /\ rows' = Append(rows, _emit_row(source_file, line_no, cleaned_line, "table",
                                                  0, 1, cleaned_line, page_no))
    /\ i' = i + 1
    /\ UNCHANGED <<inputs, pc, lines, last_heading_level>>

\* lines 128-137
TableRow ==
    /\ AtLine("table")
    /\ LET cleaned_line == clean_text(line)
       IN  IF cleaned_line = <<>>
           THEN UNCHANGED rows
           ELSE rows' = Append(rows, _emit_row(source_file, line_no, cleaned_line, "table",
                                               0, 1, current_section, page_no))
    /\ i' = i + 1
    /\ UNCHANGED <<inputs, pc, lines, current_section, last_heading_level>>

\* lines 140-149
Bullet ==
    /\ AtLine("bullet")
    /\ LET cleaned_bullet == clean_text(strip(line))
       IN  IF cleaned_bullet = <<>>
           THEN UNCHANGED rows
           ELSE rows' = Append(rows, _emit_row(source_file, line_no, cleaned_bullet, "bullet",
                                               0, 0, current_section, page_no))
    /\ i' = i + 1
    /\ UNCHANGED <<inputs, pc, lines, current_section, last_heading_level>>

\* lines 152-166
NumberedHeading ==
    /\ AtLine("numbering")
    /\ LET lvl == _infer_level_from_numbering(line)
           txt == clean_text(txt_raw(line))
       IN  IF txt = <<>>
           THEN UNCHANGED <<current_section, last_heading_level, rows>>
           ELSE /\ current_section' = txt
                /\ last_heading_level' = lvl
                /\ rows' = Append(rows, _emit_row(source_file, line_no, txt, "heading",
                                                  lvl, 0, txt, page_no))
    /\ i' = i + 1
    /\ UNCHANGED <<inputs, pc, lines>>

\* lines 168-179: current_section is assigned before the test for ""
CapsHeading ==
    /\ AtLine("caps")
    /\ LET lvl2 == _maybe_heading_from_heuristics(line, last_heading_level)
       IN  /\ current_section' = clean_text(strip(line))
           /\ IF current_section' = <<>>
              THEN UNCHANGED <<last_heading_level, rows>>
              ELSE /\ last_heading_level' = lvl2
                   /\ rows' = Append(rows, _emit_row(source_file, line_no, current_section',
                                                     "heading", lvl2, 0, current_section',
                                                     page_no))
    /\ i' = i + 1
    /\ UNCHANGED <<inputs, pc, lines>>

\* the rows of lines 182-191 for the fragments frags
RECURSIVE TextRows(_, _, _, _, _)
TextRows(frags, sf, n, cur, pg) ==
    IF frags = <<>> THEN <<>>
    ELSE LET s == Head(frags)
             s_clean == clean_text(s)
         IN  (IF s # <<>> /\ s_clean # <<>>
              THEN <<_emit_row(sf, n, s_clean, "text", 0, 0, cur, pg)>>
              ELSE <<>>)
             \o TextRows(Tail(frags), sf, n, cur, pg)

\* lines 182-191
PlainText ==
    /\ AtLine("text")
    /\ rows' = rows \o TextRows(_SENT_SPLIT_split(strip(line)), source_file, line_no,
                                current_section, page_no)
    /\ i' = i + 1
    /\ UNCHANGED <<inputs, pc, lines, current_section, last_heading_level>>

\* the loop is exhausted: the generator returns
Finish ==
    /\ pc = "loop"
    /\ i = Len(lines)
    /\ pc' = "done"
    /\ UNCHANGED <<inputs, lines, i, current_section, last_heading_level, rows>>

Next ==
    \/ Start
    \/ SkipLine
    \/ ExplicitHeading
    \/ TableRow
    \/ Bullet
    \/ NumberedHeading
    \/ CapsHeading
    \/ PlainText
    \/ Finish

Spec == Init /\ [][Next]_vars

(***************************************************************************)
(* Properties                                                              *)
(***************************************************************************)
Rows == 1..Len(rows)

\* the line a row names by its line_no
RowLine(r) == rstrip(lines[r.line_no])

RowsOfLine(n) == {k \in Rows : rows[k].line_no = n}

\* the lines the loop has handled so far
Handled == 1..i

Stack(r) == <<r.h1, r.h2, r.h3>>

\* the heading stack carried by the row before row k
StackBefore(k) == IF k = 1 THEN <<<<>>, <<>>, <<>>>> ELSE Stack(rows[k - 1])

\* the most recent heading row before row k, 0 if there is none
HeadingBefore(k) ==
    LET hs == {j \in 1..(k - 1) : rows[j].section_type = "heading"}
    IN  IF hs = {} THEN 0 ELSE CHOOSE j \in hs : \A m \in hs : m <= j

HeadingTextBefore(k) == IF HeadingBefore(k) = 0 THEN <<>> ELSE rows[HeadingBefore(k)].text

HeadingLevelBefore(k) == IF HeadingBefore(k) = 0 THEN 0 ELSE rows[HeadingBefore(k)].heading_level

\* row k was emitted for an explicit '#' heading line
IsExplicitHeadingRow(k) ==
    rows[k].section_type = "heading" /\ _HEADING_RE_hashes(RowLine(rows[k])) > 0

\* C1: the row of an explicit heading of level L carries the heading stack
\* as updated by it (L = 1: h1 = text, h2 = h3 = ""; L = 2: h2 = text,
\* h3 = "", h1 as before; L >= 3: h3 = text, h1 and h2 as before), and
\* every row that is not a heading carries the stack of the row before it.
C1_HeadingStack ==
    \A k \in Rows :
        LET r == rows[k]
            before == StackBefore(k)
        IN  /\ IsExplicitHeadingRow(k) /\ r.heading_level = 1
                => Stack(r) = <<r.text, <<>>, <<>>>>
            /\ IsExplicitHeadingRow(k) /\ r.heading_level = 2
                => Stack(r) = <<before[1], r.text, <<>>>>
            /\ IsExplicitHeadingRow(k) /\ r.heading_level >= 3
                => Stack(r) = <<before[1], before[2], r.text>>
            /\ r.section_type # "heading" => Stack(r) = before

\* C2: a heading row has current_section equal to its own text; a table,
\* bullet or text row has current_section equal to the text of the most
\* recent heading row before it, "" if there is none.
C2_ForwardFill ==
    \A k \in Rows :
        IF rows[k].section_type = "heading"
        THEN rows[k].current_section = rows[k].text
        ELSE rows[k].current_section = HeadingTextBefore(k)

\* a line the loop takes for a heading, explicit or heuristic
AtHeadingLine ==
    /\ pc = "loop"
    /\ i < Len(lines)
    /\ Rule(line, use_heuristics) \in {"heading", "numbering", "caps"}

\* C3: a line recognised as a heading whose normalized text is empty emits
\* no row and leaves current_section and last_heading_level as they were.
C3_EmptyHeadingKeepsState ==
    [][AtHeadingLine /\ rows' = rows
         => /\ current_section' = current_section
            /\ last_heading_level' = last_heading_level]_vars

\* a line that is blank, noise, a table line, a bullet line or plain text
AtNonHeadingLine ==
    /\ pc = "loop"
    /\ i < Len(lines)
    /\ Rule(line, use_heuristics) \in {"skip", "table", "bullet", "text"}

\* C4: a blank, noise, table, bullet or plain-text line leaves
\* current_section and last_heading_level as they were; its rows carry the
\* current_section and the heading stack as of entering the line; a blank
\* or noise line emits no row.
C4_NonHeadingLinesKeepState ==
    [][AtNonHeadingLine
         => /\ current_section' = current_section
            /\ last_heading_level' = last_heading_level
            /\ SubSeq(rows', 1, Len(rows)) = rows
            /\ \A k \in (Len(rows) + 1)..Len(rows') :
                   /\ rows'[k].current_section = current_section
                   /\ Stack(rows'[k]) = (IF rows = <<>> THEN <<<<>>, <<>>, <<>>>>
                                         ELSE Stack(rows[Len(rows)]))
            /\ (line = <<>> \/ _is_toc_or_reference(line) => rows' = rows)]_vars

\* a heading, then a blank or noise line, then a table line have been handled
C4_Witness ==
    /\ \E k \in Rows : /\ rows[k].section_type = "table"
                       /\ rows[k].current_section # <<>>
                       /\ rows[k].line_no = 3
    /\ Rule(rstrip(lines[2]), use_heuristics) = "skip"

\* C5: every row has a non-empty text without leading or trailing
\* whitespace; a fragment whose normalized text is empty gives no row.
C5_TextNonEmptyTrimmed ==
    \A k \in Rows :
        LET t == rows[k].text
        IN  t # <<>> /\ ~IsSpace(t[1]) /\ ~IsSpace(t[Len(t)])

\* a heading line whose text normalizes to "" has been handled, and there are rows
C5_Witness ==
    /\ rows # <<>>
    /\ \E n \in Handled :
           LET l == rstrip(lines[n])
           IN  /\ Rule(l, use_heuristics) = "heading"
               /\ clean_text(strip(_HEADING_RE_text(l))) = <<>>
               /\ RowsOfLine(n) = {}

\* C6: the rows of a line carry the 1-based position of the line in the
\* text (blank and dropped lines counted) and the page_no of the call;
\* line_no never decreases along the rows, and two rows share a line_no
\* only if both are text rows.
C6_RowsInLineOrder ==
    [][pc = "loop"
         => /\ SubSeq(rows', 1, Len(rows)) = rows
            /\ \A k \in (Len(rows) + 1)..Len(rows') :
                   /\ rows'[k].line_no = i + 1
                   /\ rows'[k].page_no = page_no
            /\ \A j, k \in 1..Len(rows') :
                   j < k => /\ rows'[j].line_no <= rows'[k].line_no
                            /\ rows'[j].line_no = rows'[k].line_no
                                 => /\ rows'[j].section_type = "text"
                                    /\ rows'[k].section_type = "text"]_vars

\* two text rows of line 2, after a first line that gave no row
C6_Witness ==
    /\ Len(rows) >= 2
    /\ rows[1].line_no = 2
    /\ rows[2].line_no = 2
    /\ page_no = 1

\* the section_type the priority order gives the rows of a line
C7_TypeOf(l, heuristics) ==
    IF l = <<>> \/ _is_toc_or_reference(l) THEN "none"
    ELSE IF _HEADING_RE_hashes(l) > 0 THEN "heading"
    ELSE IF _TABLE_RE_match(l) THEN "table"
    ELSE IF _BULLET_RE_match(l) THEN "bullet"
    ELSE IF heuristics /\ (\/ _infer_level_from_numbering(l) # None
                           \/ _maybe_heading_from_heuristics(l, 0) # None)
    THEN "heading"
    ELSE "text"

\* C7: every row of a line has the section_type of the first rule that
\* matches the line in the order noise, explicit heading, table, bullet,
\* heuristic heading, text, also when that rule drops the line; only text
\* lines give several rows; a '#' heading that is noise gives no row and
\* does not become current_section.
C7_FirstRuleWins ==
    /\ \A k \in Rows : rows[k].section_type = C7_TypeOf(RowLine(rows[k]), use_heuristics)
    /\ \A n \in Handled :
           LET l == rstrip(lines[n])
           IN  /\ C7_TypeOf(l, use_heuristics) # "text" => Cardinality(RowsOfLine(n)) <= 1
               /\ _is_toc_or_reference(l) /\ _HEADING_RE_hashes(l) > 0
                    => current_section # clean_text(strip(_HEADING_RE_text(l)))

\* with use_heuristics, "# Index" has given no row and "1. X" a bullet row
C7_Witness ==
    /\ use_heuristics
    /\ \E n \in Handled :
           /\ _is_toc_or_reference(rstrip(lines[n]))
           /\ _HEADING_RE_hashes(rstrip(lines[n])) > 0
    /\ \E k \in Rows : /\ rows[k].section_type = "bullet"
                       /\ _maybe_heading_from_heuristics(RowLine(rows[k]), 0) # None

ClimateRisk == <<"3",".","2"," ","C","l","i","m","a","t","e"," ","R","i","s","k">>

\* C8: without use_heuristics every heading row comes from an explicit '#'
\* line, a line only the heuristics take for a heading gives text rows, and
\* current_section stays the text of the last heading row; "3.2 Climate
\* Risk" gives one text row without use_heuristics and one heading row of
\* level 2 with it.
C8_HeuristicGating ==
    /\ ~use_heuristics =>
          /\ \A k \in Rows : rows[k].section_type = "heading" => IsExplicitHeadingRow(k)
          /\ \A k \in Rows :
                 C7_TypeOf(RowLine(rows[k]), TRUE) = "heading" /\ ~IsExplicitHeadingRow(k)
                     => rows[k].section_type = "text"
          /\ current_section = HeadingTextBefore(Len(rows) + 1)
    /\ \A n \in Handled :
           lines[n] = ClimateRisk =>
               \E k \in Rows :
                   /\ RowsOfLine(n) = {k}
                   /\ IF use_heuristics
                      THEN /\ rows[k].section_type = "heading"
                           /\ rows[k].heading_level = 2
                           /\ rows[k].text = SubSeq(ClimateRisk, 5, 16)
                      ELSE /\ rows[k].section_type = "text"
                           /\ rows[k].text = ClimateRisk
                           /\ rows[k].current_section = HeadingTextBefore(k)

\* without use_heuristics, "3.2 Climate Risk" after a heading: a text row
\* under that heading
C8_Witness ==
    /\ ~use_heuristics
    /\ \E k \in Rows : /\ RowLine(rows[k]) = ClimateRisk
                       /\ rows[k].current_section # <<>>
                       /\ current_section = rows[k].current_section

\* the number of "." in a token
RECURSIVE C9_Dots(_)
C9_Dots(tok) ==
    IF tok = <<>> THEN 0 ELSE (IF Head(tok) = "." THEN 1 ELSE 0) + C9_Dots(Tail(tok))

\* short and shouty: at most 12 tokens, no final ".", "!" or "?", and at
\* least 6 in 10 letters upper-case
C9_Shouty(l) ==
    LET t == strip(l)
        letters == {k \in 1..Len(t) : IsAlpha(t[k])}
        upper == {k \in letters : IsUpper(t[k])}
    IN  /\ t # <<>>
        /\ Len(split(t)) <= 12
        /\ t[Len(t)] \notin {".", "!", "?"}
        /\ letters # {}
        /\ 10 * Cardinality(upper) >= 6 * Cardinality(letters)

\* C9: the level of a heuristic heading row is decided by the first pattern
\* that matches its line: numeric outline, min(6, dots + 1); roman numeral,
\* 1; single capital letter, 2; short and shouty, min(3, L + 1) with L the
\* level of the most recent heading row before it, 0 if none.  With
\* use_heuristics no line that matches a pattern is left as text.
C9_HeuristicLevels ==
    \A k \in Rows :
        LET r == rows[k]
            l == RowLine(r)
        IN  /\ r.section_type = "heading" /\ _HEADING_RE_hashes(l) = 0
                => r.heading_level =
                       (IF _NUM_HEADING_dots(l) >= 0 THEN Min(6, C9_Dots(split(l)[1]) + 1)
                        ELSE IF _ROMAN_HEADING_match(l) THEN 1
                        ELSE IF _ALPHA_HEADING_match(l) THEN 2
                        ELSE IF C9_Shouty(l) THEN Min(3, HeadingLevelBefore(k) + 1)
                        ELSE 0)
            /\ r.section_type = "text" /\ use_heuristics
                => /\ _NUM_HEADING_dots(l) < 0
                   /\ ~_ROMAN_HEADING_match(l)
                   /\ ~_ALPHA_HEADING_match(l)
                   /\ ~C9_Shouty(l)

\* a short and shouty heading after a heading of level 6, and a numeric, a
\* roman and a letter heading
C9_Witness ==
    /\ \E k \in Rows : /\ rows[k].section_type = "heading"
                       /\ _infer_level_from_numbering(RowLine(rows[k])) = None
                       /\ _HEADING_RE_hashes(RowLine(rows[k])) = 0
                       /\ HeadingLevelBefore(k) = 6
                       /\ rows[k].heading_level = 3

\* C10: section_type is heading, bullet, table or text; is_table is 1 if
\* and only if section_type is table; heading_level is in 1..6 for a
\* heading and 0 otherwise.
C10_RowSchema ==
    \A k \in Rows :
        LET r == rows[k]
        IN  /\ r.section_type \in {"heading", "bullet", "table", "text"}
            /\ r.is_table \in {0, 1}
            /\ r.is_table = 1 <=> r.section_type = "table"
            /\ IF r.section_type = "heading"
               THEN r.heading_level \in 1..6
               ELSE r.heading_level = 0

\* a table row, a text row and a heading row of level 6
C10_Witness ==
    /\ \A t \in {"table", "text"} : \E k \in Rows : rows[k].section_type = t
    /\ \E k \in Rows : rows[k].section_type = "heading" /\ rows[k].heading_level = 6

(***************************************************************************)
(* Outline enrichment: utils/outline.py and the loops of the command lines *)
(***************************************************************************)
\* bound: the number of entries of the PDF outline
MaxToc == 2

\* doc.page_count and the entries of doc.get_toc() of the sample documents
PageCounts == {2}
TocLevels == 1..4
TocTitles == {<<" ">>, <<"T">>, <<"U", " ">>}
TocPages == 1..2
TocEntries == [lvl : TocLevels, title : TocTitles, page : TocPages]
Tocs == UNION {[1..n -> TocEntries] : n \in 0..MaxToc}

\* get_outline_ranges, from doc.get_toc() and doc.page_count
get_outline_ranges(d) ==
    LET toc == d.toc
        Range(n) ==
            LET end0 == IF n + 1 <= Len(toc) THEN toc[n + 1].page - 1 ELSE d.page_count
                start == Max(1, toc[n].page)
                end == Max(start, Min(end0, d.page_count))
            IN  [lvl |-> toc[n].lvl, title |-> strip(toc[n].title), s |-> start, e |-> end]
    IN  [n \in 1..Len(toc) |-> Range(n)]

\* the covering entries in the order of the list, not sorted
SortedByLevel_ListOrder(covers, lvl) == covers

\* sorted(covers, key = level): a stable sort, level by level
RECURSIVE SortedByLevel(_, _)
SortedByLevel(covers, lvl) ==
    IF \A n \in 1..Len(covers) : covers[n].lvl < lvl THEN <<>>
    ELSE SelectSeq(covers, LAMBDA c : c.lvl = lvl) \o SortedByLevel(covers, lvl + 1)

\* the loop of label_for_page over the sorted entries, from (h1, h2, h3)
RECURSIVE LabelLoop(_, _)
LabelLoop(covers, h) ==
    IF covers = <<>> THEN h
    ELSE LET c == Head(covers)
             h2 == IF c.lvl = 1 /\ h[1] = <<>> THEN <<c.title, h[2], h[3]>>
                   ELSE IF c.lvl = 2 /\ h[2] = <<>> THEN <<h[1], c.title, h[3]>>
                   ELSE IF c.lvl >= 3 /\ h[3] = <<>> THEN <<h[1], h[2], c.title>>
                   ELSE h
         IN  LabelLoop(Tail(covers), h2)

label_for_page(rs, pg) ==
    LET covers == SelectSeq(rs, LAMBDA r : r.s <= pg /\ pg <= r.e)
    IN  LabelLoop(SortedByLevel(covers, 1), <<<<>>, <<>>, <<>>>>)

\* " > ".join of the non-empty ones of three strings
JoinPath(h1, h2, h3) ==
    LET sep == <<" ", ">", " ">>
        tl == IF h2 = <<>> THEN h3
              ELSE IF h3 = <<>> THEN h2 ELSE h2 \o sep \o h3
    IN  IF h1 = <<>> THEN tl
        ELSE IF tl = <<>> THEN h1 ELSE h1 \o sep \o tl

\* the rows the command line has collected from the pages pgs: one text row
\* per page, as the generator emits it
RECURSIVE PageRows(_)
PageRows(pgs) ==
    IF pgs = <<>> THEN <<>>
    ELSE <<_emit_row(<<"a", ".", "p", "d", "f">>, 1, <<"x">>, "text", 0, 0, <<>>, Head(pgs))>>
         \o PageRows(Tail(pgs))

CollectedPages == {<<>>, <<1>>, <<2>>, <<1, 2>>, <<0>>, <<1, 1, 2>>}

InitOutline ==
    /\ NoGenerator /\ NoNormalizer /\ NoProducer
    /\ NoScheduler /\ NoApp
    /\ doc \in [page_count : PageCounts, toc : Tocs]
    /\ rows \in {PageRows(pgs) : pgs \in CollectedPages}
    /\ cli \in {"extractor", "docflow"}
    /\ cli_pc = "outline"
    /\ ranges = <<>>
    /\ row_ix = 0

\* extractor/cli.py 82-85 and docflow/cli.py 51-56, with --use-pdf-outline
GetOutline ==
    /\ cli_pc = "outline"
    /\ IF cli = "docflow" /\ rows = <<>>
       THEN ranges' = ranges /\ cli_pc' = "export"
       ELSE /\ ranges' = get_outline_ranges(doc)
            /\ cli_pc' = IF ranges' # <<>> THEN "rows" ELSE "export"
    /\ UNCHANGED <<scheduler, app, generator, rows, doc, normalizer, producer, cli, row_ix>>

\* extractor/cli.py 86-94, one row of the loop, section_path left as it was
ExtractorEnrichRow_KeepsPath ==
    /\ cli = "extractor" /\ cli_pc = "rows" /\ row_ix < Len(rows)
    /\ LET r == rows[row_ix + 1]
           o == label_for_page(ranges, r.page_no)
       IN  IF r.page_no > 0 /\ (o[1] # <<>> \/ o[2] # <<>> \/ o[3] # <<>>)
           THEN LET h1 == IF o[1] # <<>> THEN o[1] ELSE r.h1
                    h2 == IF o[2] # <<>> THEN o[2] ELSE r.h2
                    h3 == IF o[3] # <<>> THEN o[3] ELSE r.h3
                IN  rows' = [rows EXCEPT ![row_ix + 1] =
                                 [r EXCEPT !.h1 = h1, !.h2 = h2, !.h3 = h3]]
           ELSE rows' = rows
    /\ row_ix' = row_ix + 1
    /\ UNCHANGED <<scheduler, app, generator, doc, normalizer, producer, cli, cli_pc, ranges>>

\* extractor/cli.py 86-94, one row of the loop
ExtractorEnrichRow ==
    /\ cli = "extractor" /\ cli_pc = "rows" /\ row_ix < Len(rows)
    /\ LET r == rows[row_ix + 1]
           o == label_for_page(ranges, r.page_no)
       IN  IF r.page_no > 0 /\ (o[1] # <<>> \/ o[2] # <<>> \/ o[3] # <<>>)
           THEN LET h1 == IF o[1] # <<>> THEN o[1] ELSE r.h1
                    h2 == IF o[2] # <<>> THEN o[2] ELSE r.h2
                    h3 == IF o[3] # <<>> THEN o[3] ELSE r.h3
                IN  rows' = [rows EXCEPT ![row_ix + 1] =
                                 [r EXCEPT !.h1 = h1, !.h2 = h2, !.h3 = h3,
                                           !.section_path = JoinPath(h1, h2, h3)]]
           ELSE rows' = rows
    /\ row_ix' = row_ix + 1
    /\ UNCHANGED <<scheduler, app, generator, doc, normalizer, producer, cli, cli_pc, ranges>>

\* docflow/cli.py 57-68, one row of the loop, an outline title taking the
\* place of the row's own heading
DocflowEnrichRow_Overrides ==
    /\ cli = "docflow" /\ cli_pc = "rows" /\ row_ix < Len(rows)
    /\ LET r == rows[row_ix + 1]
           o == label_for_page(ranges, r.page_no)
       IN  IF r.page_no > 0
           THEN LET h1 == IF o[1] # <<>> THEN o[1] ELSE r.h1
                    h2 == IF o[2] # <<>> THEN o[2] ELSE r.h2
                    h3 == IF o[3] # <<>> THEN o[3] ELSE r.h3
                    path == IF o[1] # <<>> \/ o[2] # <<>> \/ o[3] # <<>>
                            THEN JoinPath(h1, h2, h3) ELSE r.section_path
                IN  rows' = [rows EXCEPT ![row_ix + 1] =
                                 [r EXCEPT !.h1 = h1, !.h2 = h2, !.h3 = h3,
                                           !.section_path = path]]
           ELSE rows' = rows
    /\ row_ix' = row_ix + 1
    /\ UNCHANGED <<scheduler, app, generator, doc, normalizer, producer, cli, cli_pc, ranges>>

\* docflow/cli.py 57-68, one row of the loop
DocflowEnrichRow ==
    /\ cli = "docflow" /\ cli_pc = "rows" /\ row_ix < Len(rows)
    /\ LET r == rows[row_ix + 1]
           o == label_for_page(ranges, r.page_no)
       IN  IF r.page_no > 0
           THEN LET h1 == IF o[1] # <<>> /\ r.h1 = <<>> THEN o[1] ELSE r.h1
                    h2 == IF o[2] # <<>> /\ r.h2 = <<>> THEN o[2] ELSE r.h2
                    h3 == IF o[3] # <<>> /\ r.h3 = <<>> THEN o[3] ELSE r.h3
                    path == IF o[1] # <<>> \/ o[2] # <<>> \/ o[3] # <<>>
                            THEN JoinPath(h1, h2, h3) ELSE r.section_path
                IN  rows' = [rows EXCEPT ![row_ix + 1] =
                                 [r EXCEPT !.h1 = h1, !.h2 = h2, !.h3 = h3,
                                           !.section_path = path]]
           ELSE rows' = rows
    /\ row_ix' = row_ix + 1
    /\ UNCHANGED <<scheduler, app, generator, doc, normalizer, producer, cli, cli_pc, ranges>>

\* the end of the loop over the rows
EnrichmentDone ==
    /\ cli_pc = "rows" /\ row_ix = Len(rows)
    /\ cli_pc' = "export"
    /\ UNCHANGED <<scheduler, app, generator, rows, doc, normalizer, producer, cli, ranges, row_ix>>

NextOutline ==
    \/ GetOutline
    \/ ExtractorEnrichRow
    \/ DocflowEnrichRow
    \/ EnrichmentDone

SpecOutline == InitOutline /\ [][NextOutline]_vars

\* the non-empty ones of three strings
C11_NonEmpty(h) == SelectSeq(h, LAMBDA x : x # <<>>)

\* C11: in every row, as the generator emitted it and after the outline
\* enrichment of either command line has run over it, section_path is the
\* non-empty ones of h1, h2, h3 in that order, joined with " > " (and is
\* empty when all three are empty).
C11_SectionPath ==
    \A k \in Rows :
        LET h == C11_NonEmpty(<<rows[k].h1, rows[k].h2, rows[k].h3>>)
            sep == <<" ", ">", " ">>
        IN  rows[k].section_path =
                CASE Len(h) = 0 -> <<>>
                  [] Len(h) = 1 -> h[1]
                  [] Len(h) = 2 -> h[1] \o sep \o h[2]
                  [] OTHER -> h[1] \o sep \o h[2] \o sep \o h[3]

\* the enrichment has given one row two labels with a gap between them and
\* has left a row of an uncovered page without labels
C11_Witness ==
    /\ cli_pc = "export"
    /\ \E k \in Rows : rows[k].h1 # <<>> /\ rows[k].h2 = <<>> /\ rows[k].h3 # <<>>
    /\ \E k \in Rows : rows[k].h1 = <<>> /\ rows[k].h2 = <<>> /\ rows[k].h3 = <<>>
                       /\ rows[k].page_no > 0

(***************************************************************************)
(* text_clean: the import of the module and calls of clean_text            *)
(***************************************************************************)
\* The patterns the module compiles when it is imported, in the order of its
\* lines 6-14, each with the character ranges lo-hi of its classes as code
\* points: [\u0000-\u001F\u007F] in CTRL_RE; [^\x00-\x7F], "|-/" inside
\* [\s:|-/] ("|" is 124, "/" is 47) and [A-Za-z] in NON_LATIN_PREFIX_RE.
TextCleanPatterns ==
    << [name |-> "MULTISPACE_RE", ranges |-> <<>>],
       [name |-> "NBSP_RE", ranges |-> <<>>],
       [name |-> "CTRL_RE", ranges |-> << <<0, 31>> >>],
       [name |-> "DUP_EN_RE", ranges |-> <<>>],
       [name |-> "NON_LATIN_PREFIX_RE",
        ranges |-> << <<0, 127>>, <<124, 47>>, <<65, 90>>, <<97, 122>> >>],
       [name |-> "LEADING_PIPE_RE", ranges |-> <<>>],
       [name |-> "TRAILING_PIPE_RE", ranges |-> <<>>] >>

\* re.compile returns a pattern unless a class has a range lo-hi with hi < lo,
\* for which it raises re.error ("bad character range")
re_compile(p) == \A n \in 1..Len(p.ranges) : p.ranges[n][1] <= p.ranges[n][2]

\* bound: the number of pieces of an argument of clean_text
MaxPieces == 4

Pieces ==
    { <<"|">>, <<" ">>, <<"a">>, <<"&">>, <<"a", "m", "p", ";">>,
      <<"U+BA54", "U+C2DC", "U+C9C0">>, <<"C", "E", "O">> }

RECURSIVE Concat(_)
Concat(ps) == IF ps = <<>> THEN <<>> ELSE Head(ps) \o Concat(Tail(ps))

CleanInputs == {Concat(ps) : ps \in UNION {[1..n -> Pieces] : n \in 0..MaxPieces}}

\* a program that imports sentence_postprocess, whose line 13 imports
\* text_clean, to classify md_text and to normalize s_in
LoadInputs == {Concat(ps) : ps \in UNION {[1..n -> Pieces] : n \in 0..(MaxPieces - 1)}}
LoadDocuments == SampleLines \cup {<<"1", TAB, "X">>}

InitLoad ==
    /\ md_text \in LoadDocuments
    /\ source_file = <<"a", ".", "p", "d", "f">>
    /\ page_no \in PageNos
    /\ use_heuristics \in BOOLEAN
    /\ pc = "import"
    /\ lines = <<>> /\ i = 0 /\ current_section = <<>> /\ last_heading_level = 0
    /\ rows = <<>>
    /\ s_in \in LoadInputs
    /\ tc_pc = "none" /\ compiled = 0 /\ s_out = <<>> /\ s_again = <<>>
    /\ NoDocument /\ NoEnrichment /\ NoProducer
    /\ NoScheduler /\ NoApp

\* sentence_postprocess.py 10-13: the import reaches text_clean
ImportTextClean ==
    /\ pc = "import" /\ tc_pc = "none"
    /\ tc_pc' = "import"
    /\ UNCHANGED <<scheduler, app, generator, rows, doc, compiled, s_in, s_out, s_again,
                   enrichment, producer>>

\* text_clean.py 6-14: the next re.compile of the module body
CompilePattern ==
    /\ tc_pc = "import" /\ compiled < Len(TextCleanPatterns)
    /\ IF re_compile(TextCleanPatterns[compiled + 1])
       THEN /\ compiled' = compiled + 1
            /\ tc_pc' = IF compiled' = Len(TextCleanPatterns) THEN "loaded" ELSE "import"
       ELSE /\ compiled' = compiled
            /\ tc_pc' = "re.error"
    /\ UNCHANGED <<scheduler, app, generator, rows, doc, s_in, s_out, s_again, enrichment, producer>>

\* sentence_postprocess.py 13: the import of text_clean has ended, with the
\* module or with the exception, which nothing catches
ImportEnds ==
    /\ pc = "import" /\ tc_pc \in {"loaded", "re.error"}
    /\ pc' = IF tc_pc = "loaded" THEN "loaded" ELSE "raised"
    /\ UNCHANGED <<scheduler, app, md_text, source_file, page_no, use_heuristics, lines, i,
                   current_section, last_heading_level, rows, doc, normalizer,
                   enrichment, producer>>

NextLoad ==
    \/ ImportTextClean
    \/ CompilePattern
    \/ ImportEnds

SpecLoad == InitLoad /\ [][NextLoad]_vars

\* calls of clean_text in the state in which every pattern of the module has
\* compiled: clean_text(clean_text(s_in))
InitClean ==
    /\ NoGenerator /\ rows = <<>>
    /\ s_in \in CleanInputs
    /\ tc_pc = "loaded" /\ compiled = Len(TextCleanPatterns)
    /\ s_out = <<>> /\ s_again = <<>>
    /\ NoDocument /\ NoEnrichment /\ NoProducer
    /\ NoScheduler /\ NoApp

CleanText ==
    /\ tc_pc = "loaded"
    /\ s_out' = clean_text(s_in)
    /\ tc_pc' = "returned"
    /\ UNCHANGED <<scheduler, app, generator, rows, doc, compiled, s_in, s_again, enrichment, producer>>

CleanTextAgain ==
    /\ tc_pc = "returned"
    /\ s_again' = clean_text(s_out)
    /\ tc_pc' = "again"
    /\ UNCHANGED <<scheduler, app, generator, rows, doc, compiled, s_in, s_out, enrichment, producer>>

NextClean ==
    \/ CleanText
    \/ CleanTextAgain

SpecClean == InitClean /\ [][NextClean]_vars

\* C12: normalization is idempotent: for every string s, also one with
\* several leading or trailing pipes, a phrase repeated more than twice or a
\* bilingual prefix, clean_text(clean_text(s)) = clean_text(s).
C12_Idempotent == tc_pc = "again" => s_again = s_out

\* C13: the normalizer is total: importing it and calling it on a string never
\* fails and returns a string, the empty one for the empty one.
C13_Total ==
    /\ tc_pc # "re.error"
    /\ tc_pc = "returned" => (s_in = <<>> => s_out = <<>>)

\* C14: the classifier never raises: for every md_text, source_file, page_no
\* and use_heuristics, importing it and iterating parse_markdown_to_rows ends
\* normally, after one pass over the lines.
C14_NeverRaises ==
    /\ pc # "raised"
    /\ pc = "done" => i = Len(lines)

(***************************************************************************)
(* The generator on table, bullet and sentence lines                       *)
(***************************************************************************)
\* bound: the number of lines of md_text in the documents of ShapeLines
MaxShapeLines == 2

FirstSecond ==
    <<"F","i","r","s","t"," ","s","e","n","t","e","n","c","e","."," ",
      "S","e","c","o","n","d"," ","s","e","n","t","e","n","c","e",".">>

ShapeLines ==
    { <<>>,                                       \* blank
      <<"#"," ","A">>,                            \* explicit heading
      <<"|"," ","a"," ","|"," ","b"," ","|">>,    \* table
      <<" ","|","|"," ","a"," ","|">>,            \* table, two leading pipes
      <<"|","|">>,                                \* pipes with nothing between them
      <<"-"," ","x">>,                            \* bullet
      <<" ","*"," ","y">>,                        \* bullet after whitespace
      <<"U+2022"," ","z">>,                       \* the bullet character U+2022
      <<"1","2","."," ","x">>,                    \* numbered bullet
      <<"U+20AC"," ","q">>,                       \* the euro sign, then a space
      <<"+"," ","x">>,                            \* another character, then a space
      <<"-","x">>,                                \* marker without whitespace
      FirstSecond,                                \* two sentences
      <<"H","i","."," ","y","o">>,                \* lower case after the full stop
      <<"A","!"," ",TAB,"2","?"," ","C">>,        \* three fragments
      <<"H","i","?"," ","U+FF21","b">>,           \* full-width capital after '?'
      <<"1"," ","X">>,                            \* numeric outline
      <<"A","B","C"," ","d","e">> }               \* short and upper-case

ShapeDocuments ==
    {JoinLines(ls) : ls \in UNION {[1..n -> ShapeLines] : n \in 0..MaxShapeLines}}

InitShapes ==
    /\ md_text \in ShapeDocuments
    /\ source_file = <<"a", ".", "p", "d", "f">>
    /\ page_no \in PageNos
    /\ use_heuristics \in BOOLEAN
    /\ pc = "start"
    /\ lines = <<>>
    /\ i = 0
    /\ current_section = <<>>
    /\ last_heading_level = 0
    /\ rows = <<>>
    /\ NoDocument /\ NoNormalizer /\ NoEnrichment /\ NoProducer
    /\ NoScheduler /\ NoApp

SpecShapes == InitShapes /\ [][Next]_vars

\* a line that is not blank, not a contents or references line and not an
\* explicit heading
C15_Free(l) == l # <<>> /\ ~_is_toc_or_reference(l) /\ _HEADING_RE_hashes(l) = 0

\* the trimmed line starts and ends with '|'
C15_TableShaped(l) ==
    LET t == strip(l) IN t # <<>> /\ t[1] = "|" /\ t[Len(t)] = "|"

\* C15: a line that noise and heading rules leave alone and whose trimmed
\* form starts and ends with '|' gives at most one row; the row is a table
\* row with is_table 1 and heading_level 0 and its text is the normalized
\* line, without the outer leading and trailing pipe; '| a | b |' gives
\* exactly one row, with text 'a | b'.
C15_TableRow ==
    \A n \in Handled :
        LET l == rstrip(lines[n])
        IN  /\ C15_Free(l) /\ C15_TableShaped(l)
                => /\ Cardinality(RowsOfLine(n)) <= 1
                   /\ \A k \in RowsOfLine(n) :
                          /\ rows[k].section_type = "table"
                          /\ rows[k].is_table = 1
                          /\ rows[k].heading_level = 0
                          /\ rows[k].text = clean_text(l)
                          /\ rows[k].text[1] # "|" \/ l[SpaceRun(l, 1) + 2] = "|"
            /\ l = <<"|"," ","a"," ","|"," ","b"," ","|">>
                => \E k \in Rows : /\ RowsOfLine(n) = {k}
                                   /\ rows[k].text = <<"a"," ","|"," ","b">>

\* '| a | b |' and ' || a |' have each given a table row
C15_Witness ==
    /\ pc = "done"
    /\ \E k \in Rows : /\ RowLine(rows[k]) = <<"|"," ","a"," ","|"," ","b"," ","|">>
                       /\ rows[k].section_type = "table"
    /\ \E k \in Rows : /\ RowLine(rows[k]) = <<" ","|","|"," ","a"," ","|">>
                       /\ rows[k].text = <<"|"," ","a">>

\* optional whitespace, then '-', '*', the bullet U+2022 or digits and '.',
\* then whitespace, then content
C16_BulletShaped(l) ==
    LET t == lstrip(l)
        d == DigitRun(t, 1)
    IN  \/ Len(t) >= 3 /\ t[1] \in {"-", "*", "U+2022"} /\ IsSpace(t[2])
        \/ d >= 1 /\ Len(t) >= d + 3 /\ t[d + 1] = "." /\ IsSpace(t[d + 2])

\* C16: a line that the noise, heading and table rules leave alone and that
\* is optional whitespace, a marker '-', '*', U+2022 or digits with '.', then
\* whitespace, then content gives exactly one row, a bullet row (none when
\* its normalized text is empty), and no other line gives a bullet row.
C16_BulletRecognition ==
    \A n \in Handled :
        LET l == rstrip(lines[n])
        IN  /\ C15_Free(l) /\ ~_TABLE_RE_match(l) /\ C16_BulletShaped(l)
                => /\ \A k \in RowsOfLine(n) : rows[k].section_type = "bullet"
                   /\ Cardinality(RowsOfLine(n)) <= 1
                   /\ RowsOfLine(n) = {} => clean_text(l) = <<>>
            /\ \A k \in RowsOfLine(n) :
                   rows[k].section_type = "bullet" => C16_BulletShaped(l)

\* the content of a bullet line: what follows the marker (one character, or
\* digits and '.') and the whitespace after it
C17_Content(l) ==
    LET t == lstrip(l)
        d == DigitRun(t, 1)
        m == IF d >= 1 THEN d + 1 ELSE 1
    IN  SubSeq(t, m + 1 + SpaceRun(t, m + 1), Len(t))

\* C17: the text of a bullet row is the normalized content of its line,
\* without the marker and the whitespace after it, whatever the marker.
C17_BulletText ==
    \A k \in Rows :
        rows[k].section_type = "bullet"
            => rows[k].text = clean_text(C17_Content(RowLine(rows[k])))

\* the fragments of s cut at each whitespace run that follows '.', '!' or '?'
\* and precedes a character of starts
RECURSIVE C18_Fragments(_, _)
C18_Fragments(s, starts) ==
    LET IsCut(p) == /\ s[p - 1] \in {".", "!", "?"}
                    /\ IsSpace(s[p])
                    /\ \E q \in (p + 1)..Len(s) :
                           /\ s[q] \in starts
                           /\ \A m \in p..(q - 1) : IsSpace(s[m])
    IN  IF \E p \in 2..Len(s) : IsCut(p)
        THEN LET p == CHOOSE c \in 2..Len(s) :
                          IsCut(c) /\ \A d \in 2..(c - 1) : ~IsCut(d)
             IN  <<SubSeq(s, 1, p - 1)>> \o C18_Fragments(lstrip(SubSeq(s, p, Len(s))), starts)
        ELSE <<s>>

\* the texts of the rows of line n, in the order of the rows
C18_RowTexts(n) ==
    LET rs == SelectSeq(rows, LAMBDA r : r.line_no = n)
    IN  [k \in 1..Len(rs) |-> rs[k].text]

\* the normalized fragments that are not empty
C18_Texts(frags) ==
    SelectSeq([k \in 1..Len(frags) |-> clean_text(frags[k])], LAMBDA x : x # <<>>)

\* the rows of every plain-text line are text rows, one per fragment with a
\* non-empty normalized text, in order
C18_SplitAt(starts) ==
    \A n \in Handled :
        LET l == rstrip(lines[n])
        IN  /\ C7_TypeOf(l, use_heuristics) = "text"
                => /\ C18_RowTexts(n) = C18_Texts(C18_Fragments(strip(l), starts))
                   /\ \A k \in RowsOfLine(n) : rows[k].section_type = "text"
            /\ l = FirstSecond
                => C18_RowTexts(n) =
                       << SubSeq(FirstSecond, 1, 15), SubSeq(FirstSecond, 17, 32) >>

\* C18 as stated: a plain-text line is cut exactly at each whitespace run
\* that follows '.', '!' or '?' and precedes an uppercase letter or a digit,
\* and nowhere else; each fragment whose normalized text is not empty gives
\* one text row, in order, with the line's line_no; 'First sentence. Second
\* sentence.' gives exactly the rows 'First sentence.' and 'Second sentence.'.
C18_SentenceSplit_Original ==
    C18_SplitAt({UPPER[k] : k \in 1..26} \cup {FullWidthA} \cup {DIGITS[k] : k \in 1..10})

\* C18, amended: the same, with the cut before one of the ASCII letters A-Z
\* or one of the ASCII digits 0-9 only; before another uppercase letter the
\* line is not cut.
C18_SentenceSplit ==
    C18_SplitAt({UPPER[k] : k \in 1..26} \cup {DIGITS[k] : k \in 1..10})

\* 'First sentence. Second sentence.' has given its two rows, and the line
\* with a full-width capital after '?' one row
C18_Witness ==
    /\ pc = "done"
    /\ \E n \in Handled : lines[n] = FirstSecond /\ Cardinality(RowsOfLine(n)) = 2
    /\ \E n \in Handled : /\ lines[n] = <<"H","i","?"," ","U+FF21","b">>
                          /\ Cardinality(RowsOfLine(n)) = 1

\* the start of the remainder of s when s is a run of at least 2 characters
\* outside ASCII, then one or more separators (whitespace, ':', '|', '-',
\* '/'), then a remainder that starts with a Latin letter; 0 otherwise
C19_Remainder(s) ==
    LET n == NonAsciiRun(s, 1)
        IsSep(c) == IsSpace(c) \/ c \in {":", "|", "-", "/"}
        seps == {k \in 1..(Len(s) - n) : \A m \in (n + 1)..(n + k) : IsSep(s[m])}
        k == IF seps = {} THEN 0 ELSE CHOOSE x \in seps : \A y \in seps : y <= x
    IN  IF n >= 2 /\ k >= 1 /\ n + k < Len(s)
           /\ s[n + k + 1] \in AsciiUpper \cup AsciiLower
        THEN n + k + 1 ELSE 0

\* what the claim says s normalizes to
C19_Expected(s) ==
    LET rest == SubSeq(s, C19_Remainder(s), Len(s))
    IN  IF \E w \in Keywords : Contains(lower(rest), w) THEN strip(rest) ELSE s

\* C19: a string that is a run of at least 2 non-Latin characters, then
\* separators, then a remainder starting with a Latin letter normalizes to
\* the trimmed remainder when the remainder's lowercase form contains one of
\* the keywords, and to itself when it contains none: the program that
\* imports the normalizer and calls it on such a string gets that result.
C19_BilingualPrefix ==
    C19_Remainder(s_in) > 0
        => /\ pc # "raised"
           /\ tc_pc \in {"returned", "again"} => s_out = C19_Expected(s_in)

(***************************************************************************)
(* The page producers: extract_markdown_pages and docling_md_pages         *)
(***************************************************************************)
\* bound: the number of pages of the document
MaxPages == 2

\* What PyMuPDF does with a page: load_page raises; get_text("markdown")
\* returns text or nothing; it raises and get_text() returns text or nothing;
\* both raise.
FitzOutcomes == {"load_fails", "markdown", "markdown_none", "plain", "plain_none", "both_fail"}
\* What Docling does with a page: export_to_markdown returns text or raises.
DoclingOutcomes == {"markdown", "raise"}

PagesOf(outcomes) == UNION {[1..n -> outcomes] : n \in 0..MaxPages}

\* opens: fitz.open / conv.convert return a document
PdfDocs == [opens : BOOLEAN, pages : PagesOf(FitzOutcomes)]
\* has_pages: the converted document has the attribute pages; whole: what
\* export_to_markdown of the whole document does
DoclingDocs == [opens : BOOLEAN, has_pages : BOOLEAN, whole : DoclingOutcomes,
                pages : PagesOf(DoclingOutcomes)]

DoclingBackends == {"extractor.docling", "docflow.docling"}

PageMarkdown(j) == <<"#", " ", DIGITS[j + 1]>>
PagePlain(j) == <<DIGITS[j + 1]>>
WholeMarkdown(d) == JoinLines([j \in 1..Len(d.pages) |-> PageMarkdown(j)])

InitPages ==
    /\ NoGenerator /\ rows = <<>> /\ NoNormalizer /\ NoEnrichment
    /\ NoScheduler /\ NoApp
    /\ \/ backend = "pymupdf4llm" /\ doc \in PdfDocs
       \/ backend \in DoclingBackends /\ doc \in DoclingDocs
    /\ prod_pc = "open"
    /\ page_ix = 0
    /\ md_pages = <<>>

\* pymupdf4llm_backend.py 5-10: fitz.open, page_count, the test for no pages
OpenPdf ==
    /\ backend = "pymupdf4llm" /\ prod_pc = "open"
    /\ prod_pc' = IF doc.opens /\ Len(doc.pages) > 0 THEN "pages" ELSE "raised"
    /\ UNCHANGED <<scheduler, app, generator, rows, doc, normalizer, enrichment, backend, page_ix, md_pages>>

\* the md of page j, lines 12-20
FitzPageMd(j) ==
    CASE doc.pages[j] = "markdown" -> PageMarkdown(j)
      [] doc.pages[j] = "plain" -> PagePlain(j)
      [] OTHER -> <<>>

\* one iteration of the loop in which a page that does not load ends the
\* producer
ExtractPage_Aborts ==
    /\ backend = "pymupdf4llm" /\ prod_pc = "pages" /\ page_ix < Len(doc.pages)
    /\ IF doc.pages[page_ix + 1] = "load_fails"
       THEN prod_pc' = "raised" /\ UNCHANGED <<md_pages, page_ix>>
       ELSE /\ md_pages' = Append(md_pages, <<page_ix + 1, FitzPageMd(page_ix + 1)>>)
            /\ page_ix' = page_ix + 1
            /\ prod_pc' = prod_pc
    /\ UNCHANGED <<scheduler, app, generator, rows, doc, normalizer, enrichment, backend>>

\* pymupdf4llm_backend.py 11-21: one iteration of the loop, up to its yield
ExtractPage ==
    /\ backend = "pymupdf4llm" /\ prod_pc = "pages" /\ page_ix < Len(doc.pages)
    /\ md_pages' = Append(md_pages, <<page_ix + 1, FitzPageMd(page_ix + 1)>>)
    /\ page_ix' = page_ix + 1
    /\ UNCHANGED <<scheduler, app, generator, rows, doc, normalizer, enrichment, backend, prod_pc>>

\* docling_backend.py 27-31 (extractor), 236-240 (docflow)
ConvertDocument ==
    /\ backend \in DoclingBackends /\ prod_pc = "open"
    /\ prod_pc' = IF ~doc.opens THEN "raised"
                  ELSE IF doc.has_pages THEN "pages" ELSE "whole"
    /\ UNCHANGED <<scheduler, app, generator, rows, doc, normalizer, enrichment, backend, page_ix, md_pages>>

\* docling_backend.py 32-38, 241-246: one iteration of the loop
DoclingPage ==
    /\ backend \in DoclingBackends /\ prod_pc = "pages" /\ page_ix < Len(doc.pages)
    /\ LET md == IF doc.pages[page_ix + 1] = "markdown"
                 THEN PageMarkdown(page_ix + 1) ELSE <<>>
       IN  md_pages' = Append(md_pages, <<page_ix + 1, md>>)
    /\ page_ix' = page_ix + 1
    /\ UNCHANGED <<scheduler, app, generator, rows, doc, normalizer, enrichment, backend, prod_pc>>

\* docling_backend.py 39-41, 247-248: the document without pages
DoclingWhole ==
    /\ backend \in DoclingBackends /\ prod_pc = "whole"
    /\ IF doc.whole = "markdown"
       THEN md_pages' = Append(md_pages, <<0, WholeMarkdown(doc)>>) /\ prod_pc' = "done"
       ELSE md_pages' = md_pages /\ prod_pc' = "raised"
    /\ UNCHANGED <<scheduler, app, generator, rows, doc, normalizer, enrichment, backend, page_ix>>

\* the loop over the pages is exhausted
ProducerDone ==
    /\ prod_pc = "pages" /\ page_ix = Len(doc.pages)
    /\ prod_pc' = "done"
    /\ UNCHANGED <<scheduler, app, generator, rows, doc, normalizer, enrichment, backend, page_ix, md_pages>>

NextPages ==
    \/ OpenPdf
    \/ ExtractPage
    \/ ConvertDocument
    \/ DoclingPage
    \/ DoclingWhole
    \/ ProducerDone

SpecPages == InitPages /\ [][NextPages]_vars

\* loading or converting page j fails
C20_Failed(j) == doc.pages[j] \in {"load_fails", "both_fail", "raise"}

\* the pairs so far are numbered 1, 2, ... and are (j, "") for a failed page
\* j, the producer has not raised, and at its end there is a pair per page
C20_OnePairPerPage ==
    /\ prod_pc # "raised"
    /\ \A j \in 1..Len(md_pages) :
           /\ md_pages[j][1] = j
           /\ C20_Failed(j) => md_pages[j][2] = <<>>
    /\ prod_pc = "done" => Len(md_pages) = Len(doc.pages)

\* a document of n >= 1 pages that can be opened and converted as a whole
C20_Document ==
    /\ doc.opens /\ Len(doc.pages) >= 1
    /\ backend \in DoclingBackends /\ ~doc.has_pages => doc.whole = "markdown"

\* C20 as stated: for a document of n >= 1 pages every page producer yields
\* exactly n pairs, numbered 1..n in order; a page i that fails to load or to
\* convert gives the pair (i, "") and the pages after it are still produced.
C20_PageRecovery_Original ==
    C20_Document => C20_OnePairPerPage

\* C20, amended: the same for extract_markdown_pages, and for docling_md_pages
\* when the converted document has the attribute pages; when it has not,
\* docling_md_pages yields the single pair (0, markdown of the whole
\* document).
C20_PageRecovery ==
    C20_Document
        => IF backend = "pymupdf4llm" \/ doc.has_pages
           THEN C20_OnePairPerPage
           ELSE /\ prod_pc # "raised"
                /\ md_pages \in {<<>>, << <<0, WholeMarkdown(doc)>> >>}
                /\ prod_pc = "done" => md_pages # <<>>

\* the first of two pages has failed and the second has given its text
C20_Witness ==
    /\ prod_pc = "done"
    /\ Len(md_pages) = 2
    /\ C20_Failed(1)
    /\ md_pages[1] = <<1, <<>>>>
    /\ md_pages[2][1] = 2 /\ md_pages[2][2] # <<>>


(***************************************************************************)
(* Two invocations of the generator                                        *)
(*                                                                         *)
(* parse_markdown_to_rows is a generator function: every call makes a      *)
(* frame that holds md_text, source_file, page_no, use_heuristics, lines,  *)
(* the loop index, current_section and last_heading_level.  The variables  *)
(* of the generator are the frame that is running; suspended is the frame  *)
(* of the other invocation, with the rows it has yielded so far.           *)
(***************************************************************************)

\* bound: the number of lines of the first invocation's document
MaxTwoLines == 2

FirstLines ==
    { <<"#"," ","A">>,                                        \* explicit heading, level 1
      <<"I","."," ","G","o">>,                                \* roman numeral
      <<"A","B","C"," ","d","e">>,                            \* short, 3 of 5 letters upper-case
      <<"x">> }                                               \* text

FirstDocuments == {JoinLines(d) : d \in UNION {[1..n -> FirstLines] : n \in 0..MaxTwoLines}}

\* the documents of the second invocation
SecondDocuments ==
    { <<>>,
      JoinLines(<< <<"#","#"," ","B">>, <<"y">> >>),
      JoinLines(<< <<"|"," ","a"," ","|"," ","b"," ","|">>, <<>>, <<"1","."," ","X">> >>) }

\* a frame before its first next(): lines 90-95, nothing of the body has run
NewFrame(md, sf, pg, heuristics) ==
    [md_text |-> md, source_file |-> sf, page_no |-> pg, use_heuristics |-> heuristics,
     pc |-> "start", lines |-> <<>>, i |-> 0,
     current_section |-> <<>>, last_heading_level |-> 0, rows |-> <<>>]

\* the frame that is running
Frame ==
    [md_text |-> md_text, source_file |-> source_file, page_no |-> page_no,
     use_heuristics |-> use_heuristics, pc |-> pc, lines |-> lines, i |-> i,
     current_section |-> current_section, last_heading_level |-> last_heading_level,
     rows |-> rows]

InitTwo ==
    /\ md_text \in FirstDocuments
    /\ source_file = <<"a",".","p","d","f">>
    /\ page_no = 1
    /\ use_heuristics \in BOOLEAN
    /\ pc = "start"
    /\ lines = <<>>
    /\ i = 0
    /\ current_section = <<>>
    /\ last_heading_level = 0
    /\ rows = <<>>
    /\ running = 1
    /\ suspended \in {NewFrame(md, <<"b",".","p","d","f">>, 2, h) :
                        md \in SecondDocuments, h \in BOOLEAN}
    /\ NoDocument /\ NoNormalizer /\ NoEnrichment /\ NoProducer /\ NoApp

\* the two invocations keeping current_section and last_heading_level in
\* variables of the module instead of their frames
Switch_SharesSection ==
    /\ running \in {1, 2}
    /\ running' = 3 - running
    /\ suspended' = Frame
    /\ md_text' = suspended.md_text
    /\ source_file' = suspended.source_file
    /\ page_no' = suspended.page_no
    /\ use_heuristics' = suspended.use_heuristics
    /\ pc' = suspended.pc
    /\ lines' = suspended.lines
    /\ i' = suspended.i
    /\ rows' = suspended.rows
    /\ UNCHANGED <<current_section, last_heading_level>>
    /\ UNCHANGED <<doc, normalizer, enrichment, producer, app>>

\* The consumer stops driving one generator and drives the other: the frame
\* that was running is kept as it is, and the other one becomes the running
\* frame with its own arguments and locals.
Switch ==
    /\ running \in {1, 2}
    /\ running' = 3 - running
    /\ suspended' = Frame
    /\ md_text' = suspended.md_text
    /\ source_file' = suspended.source_file
    /\ page_no' = suspended.page_no
    /\ use_heuristics' = suspended.use_heuristics
    /\ pc' = suspended.pc
    /\ lines' = suspended.lines
    /\ i' = suspended.i
    /\ current_section' = suspended.current_section
    /\ last_heading_level' = suspended.last_heading_level
    /\ rows' = suspended.rows
    /\ UNCHANGED <<doc, normalizer, enrichment, producer, app>>

NextTwo ==
    \/ Switch
    \/ Start
    \/ SkipLine
    \/ ExplicitHeading
    \/ TableRow
    \/ Bullet
    \/ NumberedHeading
    \/ CapsHeading
    \/ PlainText
    \/ Finish

SpecTwo == InitTwo /\ [][NextTwo]_vars

\* what one line does to an invocation that runs alone: st is its
\* current_section (cur), last_heading_level (lvl) and rows before the line
C21_Line(st, l, n, f) ==
    LET sf == f.source_file
        pg == f.page_no
        heading(text, level) ==
            IF text = <<>> THEN st
            ELSE [cur |-> text, lvl |-> level,
                  rows |-> Append(st.rows, _emit_row(sf, n, text, "heading", level, 0,
                                                     text, pg))]
        block(text, type, is_table) ==
            IF text = <<>> THEN st
            ELSE [st EXCEPT !.rows = Append(@, _emit_row(sf, n, text, type, 0, is_table,
                                                        st.cur, pg))]
    IN  IF l = <<>> \/ _is_toc_or_reference(l) THEN st
        ELSE IF _HEADING_RE_hashes(l) > 0
        THEN heading(clean_text(strip(_HEADING_RE_text(l))), _HEADING_RE_hashes(l))
        ELSE IF _TABLE_RE_match(l) THEN block(clean_text(l), "table", 1)
        ELSE IF _BULLET_RE_match(l) THEN block(clean_text(strip(l)), "bullet", 0)
        ELSE IF f.use_heuristics /\ _infer_level_from_numbering(l) # None
        THEN heading(clean_text(txt_raw(l)), _infer_level_from_numbering(l))
        ELSE IF f.use_heuristics /\ _maybe_heading_from_heuristics(l, st.lvl) # None
        THEN LET text == clean_text(strip(l))
             IN  IF text = <<>> THEN [st EXCEPT !.cur = <<>>]
                 ELSE heading(text, _maybe_heading_from_heuristics(l, st.lvl))
        ELSE [st EXCEPT !.rows = @ \o TextRows(_SENT_SPLIT_split(strip(l)), sf, n,
                                               st.cur, pg)]

\* the invocation with the arguments of frame f, run alone over its first n lines
RECURSIVE C21_Alone(_, _)
C21_Alone(f, n) ==
    IF n = 0 THEN [cur |-> <<>>, lvl |-> 0, rows |-> <<>>]
    ELSE C21_Line(C21_Alone(f, n - 1), rstrip(splitlines(f.md_text)[n]), n, f)

C21_AsAlone(f) ==
    /\ f.pc = "start" => f.rows = <<>>
    /\ f.pc \in {"loop", "done"} =>
          /\ f.i <= Len(splitlines(f.md_text))
          /\ [cur |-> f.current_section, lvl |-> f.last_heading_level, rows |-> f.rows]
                = C21_Alone(f, f.i)
    /\ f.pc = "done" => f.i = Len(splitlines(f.md_text))

\* C21: two invocations of the classifier advanced in any interleaving are
\* independent: each starts with current_section = "" and
\* last_heading_level = 0, and after any number of its lines each has the
\* current_section, the last_heading_level and exactly the rows it has when
\* it runs alone on its own arguments, so that no heading of the other
\* invocation shows in its section or in its heuristic levels.
C21_Independent ==
    running \in {1, 2} => C21_AsAlone(Frame) /\ C21_AsAlone(suspended)

\* both invocations have finished: the first one has its heuristic heading at
\* level 2 after "A", the second one has a text row in its own section "B"
C21_Witness ==
    /\ running \in {1, 2}
    /\ pc = "done" /\ suspended.pc = "done"
    /\ \E f \in {Frame, suspended}, g \in {Frame, suspended} :
          /\ f.page_no = 1 /\ g.page_no = 2
          /\ Len(f.rows) = 2 /\ Len(g.rows) = 2
          /\ f.rows[1].text = <<"A">>
          /\ f.rows[2].section_type = "heading" /\ f.rows[2].heading_level = 2
          /\ g.rows[1].text = <<"B">> /\ g.rows[2].current_section = <<"B">>


(***************************************************************************)
(* Outline enrichment of rows that carry a heading stack                   *)
(*                                                                         *)
(* docflow/cli.py takes its rows from docflow.sentence_postprocess, whose   *)
(* rows carry the heading stack (h1, h2, h3) and the section_path joined   *)
(* from it, or from the agenticdoc backend, whose rows have the four       *)
(* fields empty.  extractor/cli.py takes its rows from the generator       *)
(* above, which leaves the four fields empty.                              *)
(***************************************************************************)

\* bound: the number of entries of doc.get_toc() under enrichment
MaxEnrichToc == 2

EnrichTocEntries == [lvl : 1..3, title : {<<" ">>, <<"T">>}, page : TocPages]
EnrichTocs == UNION {[1..n -> EnrichTocEntries] : n \in 0..MaxEnrichToc}

\* heading stacks of the rows of docflow.sentence_postprocess
HeadingStacks ==
    { <<<<>>, <<>>, <<>>>>,
      <<<<"A">>, <<>>, <<>>>>,
      <<<<"A">>, <<"B">>, <<>>>>,
      <<<<>>, <<"B">>, <<"C">>>> }

\* a text row of docflow.sentence_postprocess on page pg under the stack h
StackRow(pg, h) ==
    [_emit_row(<<"a", ".", "p", "d", "f">>, 1, <<"x">>, "text", 0, 0, h[1], pg)
        EXCEPT !.h1 = h[1], !.h2 = h[2], !.h3 = h[3],
               !.section_path = JoinPath(h[1], h[2], h[3])]

\* the rows docflow/cli.py has collected: the pages in order (pymupdf4llm
\* backend), or one page-less document (docling backend, page_no = 0)
DocflowRows ==
    {<<StackRow(1, h)>> : h \in HeadingStacks}
        \cup {<<StackRow(0, h)>> : h \in HeadingStacks}
        \cup {<<StackRow(1, h), StackRow(2, g)>> : h \in HeadingStacks, g \in HeadingStacks}

InitEnrich ==
    /\ NoGenerator /\ NoNormalizer /\ NoProducer
    /\ NoScheduler /\ NoApp
    /\ doc \in [page_count : PageCounts, toc : EnrichTocs]
    /\ \/ /\ cli = "extractor"
          /\ rows \in {PageRows(pgs) : pgs \in CollectedPages}
       \/ /\ cli = "docflow"
          /\ rows \in DocflowRows \cup {PageRows(pgs) : pgs \in CollectedPages}
    /\ cli_pc = "outline"
    /\ ranges = <<>>
    /\ row_ix = 0

SpecEnrich == InitEnrich /\ [][NextOutline]_vars

\* the titles of the outline
C22_Titles == {ranges[n].title : n \in 1..Len(ranges)}

\* one heading field before (a) and after (b) a step of the enrichment
C22_Field(a, b) ==
    /\ a # <<>> => b = a
    /\ b # a => a = <<>> /\ b \in C22_Titles

C23_Pages == 0..3

\* the first non-empty title among the ranges of rs that cover page p and
\* have a level in levels, in ascending level order and in list order
\* within a level; "" when there is none
C23_First(rs, p, levels) ==
    LET idx == {n \in 1..Len(rs) : /\ rs[n].s <= p /\ p <= rs[n].e
                                   /\ rs[n].lvl \in levels
                                   /\ rs[n].title # <<>>}
    IN  IF idx = {} THEN <<>>
        ELSE rs[CHOOSE n \in idx :
                   \A m \in idx : \/ rs[n].lvl < rs[m].lvl
                                  \/ rs[n].lvl = rs[m].lvl /\ n <= m].title

\* C23: label_for_page(ranges, p) is (h1, h2, h3) where h1 is the first
\* non-empty title, in list order, among the ranges of level 1 that cover p,
\* h2 likewise for level 2, and h3 the first non-empty title among the
\* covering ranges of level 3 or more in ascending level order; a component
\* is "" exactly when no covering range of its level has a non-empty title,
\* and ranges that do not cover p contribute nothing.
C23_Labels ==
    \A p \in C23_Pages :
        LET deep == {ranges[n].lvl : n \in 1..Len(ranges)} \ {1, 2}
        IN  label_for_page(ranges, p) =
                <<C23_First(ranges, p, {1}), C23_First(ranges, p, {2}),
                  C23_First(ranges, p, deep)>>

\* a row of page 1 has its h3 from the level-3 entry of an outline that lists
\* its level-4 entry first, both covering page 1
C23_Witness ==
    /\ cli_pc = "export" /\ Len(ranges) = 2
    /\ ranges[1].lvl = 4 /\ ranges[1].title = <<"T">>
    /\ ranges[2].lvl = 3 /\ ranges[2].title = <<"U">>
    /\ ranges[1].e = 1 /\ ranges[2].s = 1
    /\ \E k \in 1..Len(rows) : rows[k].page_no = 1 /\ rows[k].h3 = <<"U">>


\* an outline listed in page order whose level-1 entries have titles and
\* start on different pages
C24_Outline(toc) ==
    /\ \A n \in 1..(Len(toc) - 1) : toc[n].page <= toc[n + 1].page
    /\ \A n \in 1..Len(toc) : toc[n].lvl = 1 => strip(toc[n].title) # <<>>
    /\ \A n \in 1..Len(toc), m \in 1..Len(toc) :
          toc[n].lvl = 1 /\ toc[m].lvl = 1 /\ n # m => toc[n].page # toc[m].page

\* the last page of the level-1 entry n: the page before the next level-1
\* entry, or the last page of the document
C24_LastPage(d, n) ==
    LET later == {m \in (n + 1)..Len(d.toc) : d.toc[m].lvl = 1}
    IN  IF later = {} THEN d.page_count
        ELSE d.toc[CHOOSE m \in later : \A k \in later : m <= k].page - 1

\* every range has 1 <= start <= end
C24_Clamped ==
    \A n \in 1..Len(ranges) : 1 <= ranges[n].s /\ ranges[n].s <= ranges[n].e

\* C24: outline labels respect nesting.  Once the command line has the
\* ranges of the document's outline, every range has 1 <= start <= end, and
\* when the outline is listed in page order every page from the start of a
\* level-1 entry to the page before the next level-1 entry (or the last page)
\* has that entry's title as its h1, the pages of nested level-2 and level-3
\* entries included.
C24_Nesting ==
    cli_pc \in {"rows", "export"} /\ Len(ranges) = Len(doc.toc) =>
        /\ C24_Clamped
        /\ C24_Outline(doc.toc) =>
              \A n \in 1..Len(doc.toc) :
                  doc.toc[n].lvl = 1 =>
                      \A p \in doc.toc[n].page..C24_LastPage(doc, n) :
                          label_for_page(ranges, p)[1] = strip(doc.toc[n].title)


(***************************************************************************)
(* app/streamlit_app.py: the page loop of the pymupdf4llm backend           *)
(*                                                                         *)
(* md_pages is what _pymu_md_pages returned, a non-empty list of            *)
(* (page_no, md).  app_rows are the rows of the pages the loop is through   *)
(* with; rows are the rows the generator has yielded for the page in hand,  *)
(* each of which line 193 has appended to the app's list already, so the    *)
(* app's list is app_rows \o rows.                                         *)
(***************************************************************************)

\* bound: the number of pages of md_pages
MaxAppPages == 2

\* the markdown of a page
AppDocuments ==
    { <<>>,
      JoinLines(<< <<"x">>, <<"#"," ","A">> >>),
      JoinLines(<< <<"|"," ","a"," ","|"," ","b"," ","|">>, <<>>, <<"1","."," ","X">> >>) }

AppPages ==
    UNION {{[j \in 1..n |-> <<j, mds[j]>>] : mds \in [1..n -> AppDocuments]} :
              n \in 1..MaxAppPages}

\* the app's rows list
AppList == app_rows \o rows

InitApp ==
    /\ NoGenerator /\ rows = <<>>
    /\ NoDocument /\ NoNormalizer /\ NoEnrichment /\ NoScheduler
    /\ backend = "none" /\ prod_pc = "none"
    /\ md_pages \in AppPages
    /\ page_ix = 0
    /\ app_pc = "loop"
    /\ app_rows = <<>>

\* lines 191-194: the next (page_no, md) and the call of the generator, with
\* use_heuristics left at its default
ClassifyPage ==
    /\ app_pc = "loop" /\ page_ix < Len(md_pages)
    /\ page_ix' = page_ix + 1
    /\ app_pc' = "page"
    /\ md_text' = md_pages[page_ix + 1][2]
    /\ source_file' = <<"a",".","p","d","f">>
    /\ page_no' = md_pages[page_ix + 1][1]
    /\ use_heuristics' = FALSE
    /\ pc' = "start"
    /\ lines' = <<>>
    /\ i' = 0
    /\ current_section' = <<>>
    /\ last_heading_level' = 0
    /\ rows' = <<>>
    /\ UNCHANGED <<app_rows, doc, normalizer, enrichment, scheduler, backend, prod_pc,
                   md_pages>>

\* an exception leaves the generator, before its first line or between two
\* of its lines
GeneratorRaises ==
    /\ app_pc = "page" /\ pc \in {"start", "loop"}
    /\ pc' = "raised"
    /\ UNCHANGED <<inputs, lines, i, current_section, last_heading_level, rows>>

\* lines 195-199: the for statement is exhausted or left by the exception,
\* which "except Exception: pass" swallows; the rows appended so far stay in
\* the list, and the loop goes on to the next page
PageDone ==
    /\ app_pc = "page" /\ pc \in {"done", "raised"}
    /\ app_rows' = app_rows \o rows
    /\ rows' = <<>>
    /\ app_pc' = "loop"
    /\ UNCHANGED <<generator, doc, normalizer, enrichment, producer, scheduler>>

\* the loop over md_pages is exhausted
PagesDone ==
    /\ app_pc = "loop" /\ page_ix = Len(md_pages)
    /\ app_pc' = "done"
    /\ UNCHANGED <<generator, rows, app_rows, doc, normalizer, enrichment, producer,
                   scheduler>>

\* use_heuristics is False in the app, so the two heuristic branches of the
\* generator are not among its steps
NextApp ==
    \/ ClassifyPage
    \/ Start
    \/ SkipLine
    \/ ExplicitHeading
    \/ TableRow
    \/ Bullet
    \/ PlainText
    \/ Finish
    \/ GeneratorRaises
    \/ PageDone
    \/ PagesDone

SpecApp == InitApp /\ [][NextApp]_vars

\* what holds of the loop whether a page raises or not: the app's list is in
\* page order, and the loop ends only after the last page
C25_Continues ==
    /\ \A k \in 1..(Len(AppList) - 1) : AppList[k].page_no <= AppList[k + 1].page_no
    /\ app_pc = "done" => page_ix = Len(md_pages)

\* C25: in the page loop of the app, when classifying a page raises, only
\* that page is skipped.  At the end of every page the rows collected from
\* earlier pages are kept and, if the generator raised, nothing is added to
\* them (the page contributes no rows, as if it had no lines), and otherwise
\* the page's rows are added after them; later pages are still classified,
\* and the rows are in page order.
C25_SkipsOnlyThatPage ==
    [][/\ app_pc = "page" /\ app_pc' = "loop" =>
             app_rows' = IF pc = "raised" THEN app_rows ELSE app_rows \o rows
       /\ C25_Continues']_vars

====
